---- MODULE Spec2Model ----
(***************************************************************************)
(* A model of blitz-utils: the region resolver (Region.from_id), the       *)
(* composite key codec (WGTankStat.mk_id, WGPlayerAchievementsMaxSeries    *)
(* .mk_index) and the construction / assignment pipeline of the pydantic   *)
(* records Account (account.py and models.py), WGAccountInfo and           *)
(* WGTankStat, the unsettable fields, Release and the replay queries.      *)
(* Several specifications share the module (SpecRegion, SpecKey,           *)
(* SpecRecord, ...); the variables a specification does not use stay idle. *)
(*                                                                         *)
(* Python integers are unbounded while TLC's integers are 32 bit, and the  *)
(* program's constants (31e8, 16^10) do not fit.  A Python int n           *)
(* is therefore the record [h, l] with n = h * 10^8 + l and 0 <= l < 10^8  *)
(* (h carries the sign), and arithmetic is done limb by limb.              *)
(***************************************************************************)
EXTENDS Integers, Sequences, FiniteSets, TLC

VARIABLES
    ida, idb,       \* region resolver: the two account ids under test
    rega, regb,     \* region resolver: Region.from_id of each ("unset" before)
    kacc, ktank, klbt, kregion,  \* key codec: the components
    kid, kindex,    \* key codec: result of mk_id / mk_index ("unset" before)
    now,            \* records: the reference clock, epoch_now()
    op,             \* records: the last operation
    payload,        \* records: the payload the current record was built from
    rec,            \* records: the current record (kind "none" when there is none)
    err,            \* records: outcome of the last operation
    prev,           \* records: the record the last operation was applied to
    subject,        \* queries: the object that is queried (a replay)
    player,         \* queries: the viewpoint the queries are made with
    ret,            \* queries: what each query returned or raised
    heap            \* objects: the objects that are held by reference

vars == << ida, idb, rega, regb, kacc, ktank, klbt, kregion, kid, kindex,
           now, op, payload, rec, err, prev, subject, player, ret, heap >>

regionVars == << ida, idb, rega, regb >>
keyVars    == << kacc, ktank, klbt, kregion, kid, kindex >>
recordVars == << now, op, payload, rec, err, prev >>
queryVars  == << subject, player, ret, heap >>

-----------------------------------------------------------------------------
(* Bounds of the model *)

\* ids are drawn from bp - IdSpread .. bp + IdSpread around every breakpoint bp
IdSpread == 2

\* key components are drawn from n - KeySpread .. n + KeySpread around 0 and
\* around the first value that overflows each column
KeySpread == 1

\* payload ids and timestamps are drawn from n - RecSpread .. n + RecSpread
\* around 0, around a region breakpoint and around the clamp threshold
RecSpread == 1

\* the reference clock takes the values Epoch .. Epoch + NowSpread
NowSpread == 1

-----------------------------------------------------------------------------
(* Python int *)

Base == 10^8

Mk(h, l) == [h |-> h, l |-> l]

\* a float literal k * 1e8, as the source writes its breakpoints (31e8, 20e8, ...)
E8(k) == Mk(k, 0)

\* a (32 bit) integer of the checker as a Python int
FromInt(n) == Mk(n \div Base, n % Base)

\* n + k for a small k, |k| < Base
AddSmall(n, k) == Mk(n.h + ((n.l + k) \div Base), (n.l + k) % Base)

GE(a, b) == a.h > b.h \/ (a.h = b.h /\ a.l >= b.l)
GT(a, b) == a.h > b.h \/ (a.h = b.h /\ a.l > b.l)
LT(a, b) == ~GE(a, b)
LE(a, b) == ~GT(a, b)

IsNeg(n) == n.h < 0

Around(n, d) == { AddSmall(n, k) : k \in (0 - d) .. d }

\* -n
Negate(n) == IF n.l = 0 THEN Mk(0 - n.h, 0) ELSE Mk(0 - n.h - 1, Base - n.l)

\* n // 16 and n % 16 for n >= 0, by long division over the two limbs
Div16(n) == Mk(n.h \div 16, ((n.h % 16) * Base + n.l) \div 16)
Mod16(n) == ((n.h % 16) * Base + n.l) % 16

\* n * 16 + d for n >= 0 and a digit d
Mul16Add(n, d) == Mk(n.h * 16 + ((n.l * 16 + d) \div Base), (n.l * 16 + d) % Base)

RECURSIVE Pow16(_)
Pow16(w) == IF w = 0 THEN Mk(0, 1) ELSE Mul16Add(Pow16(w - 1), 0)

-----------------------------------------------------------------------------
(* Region *)

\* list(Region): the members in declaration order
RegionList == << "ru", "eu", "com", "asia", "china" >>

Region == { RegionList[i] : i \in 1 .. Len(RegionList) }

None == "None"

\* Region.from_id with every comparison strict: a breakpoint falls in the older region
from_id_strict(account_id) ==
    IF GT(account_id, E8(31)) THEN "china"
    ELSE IF GT(account_id, E8(20)) THEN "asia"
    ELSE IF GT(account_id, E8(10)) THEN "com"
    ELSE IF GT(account_id, E8(5)) THEN "eu"
    ELSE "ru"

\* Region.from_id with the asia and com labels exchanged
from_id_swapped(account_id) ==
    IF GE(account_id, E8(31)) THEN "china"
    ELSE IF GE(account_id, E8(20)) THEN "com"
    ELSE IF GE(account_id, E8(10)) THEN "asia"
    ELSE IF GE(account_id, E8(5)) THEN "eu"
    ELSE "ru"

\* Region.from_id: the comparisons of an int with a float never raise, so the
\* except branch and the trailing "return None" are unreachable
from_id(account_id) ==
    IF GE(account_id, E8(31)) THEN "china"
    ELSE IF GE(account_id, E8(20)) THEN "asia"
    ELSE IF GE(account_id, E8(10)) THEN "com"
    ELSE IF GE(account_id, E8(5)) THEN "eu"
    ELSE "ru"

\* list(Region).index(region)
RegionIndex(region) == (CHOOSE i \in 1 .. Len(RegionList) : RegionList[i] = region) - 1

Breakpoints == { E8(5), E8(10), E8(20), E8(31) }

\* the non-negative account ids the resolver is tried on
RegionIds == Around(FromInt(IdSpread), IdSpread)
                \cup UNION { Around(bp, IdSpread) : bp \in Breakpoints }

-----------------------------------------------------------------------------
(* Strings are sequences of one-character strings *)

HexChars == << "0", "1", "2", "3", "4", "5", "6", "7",
               "8", "9", "a", "b", "c", "d", "e", "f" >>

IsHexChar(c) == \E i \in 1 .. Len(HexChars) : HexChars[i] = c

RECURSIVE HexDigits(_)
HexDigits(n) ==
    IF n.h = 0 /\ n.l < 16 THEN << HexChars[n.l + 1] >>
    ELSE HexDigits(Div16(n)) \o << HexChars[Mod16(n) + 1] >>

\* hex(n): "0x..." and, for a negative n, "-0x..."
hex(n) == IF IsNeg(n) THEN << "-", "0", "x" >> \o HexDigits(Negate(n))
          ELSE << "0", "x" >> \o HexDigits(n)

\* s[2:]
From2(s) == SubSeq(s, 3, Len(s))

RECURSIVE Zeros(_)
Zeros(k) == IF k <= 0 THEN << >> ELSE << "0" >> \o Zeros(k - 1)

\* s.zfill(width): zeros after a leading sign, never shortens
zfill(s, width) ==
    IF Len(s) >= width THEN s
    ELSE IF Len(s) > 0 /\ s[1] \in { "+", "-" }
         THEN << s[1] >> \o Zeros(width - Len(s)) \o Tail(s)
         ELSE Zeros(width - Len(s)) \o s

\* the last width characters of s
LastChars(s, width) == IF Len(s) <= width THEN s ELSE SubSeq(s, Len(s) - width + 1, Len(s))

-----------------------------------------------------------------------------
(* ObjectId and the composite keys *)

Unset     == [st |-> "unset", hex |-> << >>]
InvalidId == [st |-> "InvalidId", hex |-> << >>]

\* an ObjectId is 12 bytes, two hex digits each
ObjectIdLen == 2 * 12

\* bson's ObjectId(str): a string of exactly 24 hexadecimal characters, or InvalidId
ObjectId(s) ==
    IF Len(s) = ObjectIdLen /\ \A i \in 1 .. Len(s) : IsHexChar(s[i])
    THEN [st |-> "ObjectId", hex |-> s]
    ELSE InvalidId

AccountWidth == 10
TankWidth == 6
LbtWidth == 8

\* mk_id cutting every column to its width
mk_id_truncating(account_id, last_battle_time, tank_id) ==
    ObjectId(LastChars(zfill(From2(hex(account_id)), AccountWidth), AccountWidth)
             \o LastChars(zfill(From2(hex(tank_id)), TankWidth), TankWidth)
             \o LastChars(zfill(From2(hex(last_battle_time)), LbtWidth), LbtWidth))

\* mk_id with the columns in the order of its parameters
mk_id_param_order(account_id, last_battle_time, tank_id) ==
    ObjectId(zfill(From2(hex(account_id)), AccountWidth)
             \o zfill(From2(hex(last_battle_time)), LbtWidth)
             \o zfill(From2(hex(tank_id)), TankWidth))

\* WGTankStat.mk_id
mk_id(account_id, last_battle_time, tank_id) ==
    ObjectId(zfill(From2(hex(account_id)), AccountWidth)
             \o zfill(From2(hex(tank_id)), TankWidth)
             \o zfill(From2(hex(last_battle_time)), LbtWidth))

\* WGPlayerAchievementsMaxSeries.mk_index
mk_index(account_id, region, added) ==
    LET r == IF region # None THEN RegionIndex(region) ELSE 0
    IN  ObjectId(zfill(From2(hex(account_id)), AccountWidth)
                 \o zfill(From2(hex(FromInt(r))), TankWidth)
                 \o zfill(From2(hex(added)), LbtWidth))

\* the key components the codec is tried on: around 0 (one negative value
\* included) and around the first value that needs one digit more than the column
KeyValues(width) == Around(FromInt(KeySpread - 1), KeySpread)
                       \cup Around(Pow16(width), KeySpread)

-----------------------------------------------------------------------------
(* Idle values: what a subsystem's variables hold while another one runs *)

RegionIdle == ida = Mk(0, 0) /\ idb = Mk(0, 0) /\ rega = "unset" /\ regb = "unset"

KeyIdle == /\ kacc = Mk(0, 0) /\ ktank = Mk(0, 0) /\ klbt = Mk(0, 0)
           /\ kregion = None /\ kid = Unset /\ kindex = Unset

RecordIdle == /\ now = Mk(0, 0) /\ op = "init" /\ payload = [kind |-> "none"]
              /\ rec = [kind |-> "none"] /\ err = "init"
              /\ prev = [kind |-> "none"]

QueryIdle == /\ subject = [kind |-> "none"]
             /\ player = [t |-> "None", v |-> Mk(0, 0), parts |-> 0, suffix |-> ""]
             /\ ret = << >>
             /\ heap = << >>

-----------------------------------------------------------------------------
(* The region resolver applied to two account ids *)

RegionInit ==
    /\ ida \in RegionIds /\ idb \in RegionIds
    /\ rega = "unset" /\ regb = "unset"
    /\ KeyIdle /\ RecordIdle /\ QueryIdle

ResolveA ==
    /\ rega = "unset"
    /\ rega' = from_id(ida)
    /\ UNCHANGED << ida, idb, regb, keyVars, recordVars, queryVars >>

ResolveB ==
    /\ regb = "unset"
    /\ regb' = from_id(idb)
    /\ UNCHANGED << ida, idb, rega, keyVars, recordVars, queryVars >>

RegionNext == ResolveA \/ ResolveB

SpecRegion == RegionInit /\ [][RegionNext]_vars

-----------------------------------------------------------------------------
(* Claims on the region resolver *)

\* the breakpoint table of the specification, as half-open intervals
InInterval(n, lo, hi) == GE(n, lo) /\ LT(n, hi)

TableRegion(n) ==
    CASE InInterval(n, Mk(0, 0), E8(5))  -> "ru"
      [] InInterval(n, E8(5), E8(10))    -> "eu"
      [] InInterval(n, E8(10), E8(20))   -> "com"
      [] InInterval(n, E8(20), E8(31))   -> "asia"
      [] GE(n, E8(31))                   -> "china"
      [] OTHER                           -> None

\* C1: Region.from_id maps every non-negative account id by the fixed
\* breakpoints, each lower bound inclusive: [0, 5e8) -> ru, [5e8, 1e9) -> eu,
\* [1e9, 2e9) -> com, [2e9, 3.1e9) -> asia, [3.1e9, oo) -> china.
C1_FromIdBreakpoints ==
    /\ (rega # "unset" /\ ~IsNeg(ida)) => rega = TableRegion(ida)
    /\ (regb # "unset" /\ ~IsNeg(idb)) => regb = TableRegion(idb)

\* an id exactly on the top breakpoint has been resolved, to china
C1_Witness == ida = E8(31) /\ rega = "china"

\* C2: Region.from_id is total (it returns a Region, never None, for every
\* non-negative id) and monotonic: for ids a <= b the enumeration position of
\* from_id(a) is not greater than that of from_id(b).
C2_FromIdTotalMonotonic ==
    /\ rega # "unset" => rega \in Region
    /\ regb # "unset" => regb \in Region
    /\ (rega # "unset" /\ regb # "unset" /\ LE(ida, idb))
          => RegionIndex(rega) <= RegionIndex(regb)

\* two ids on different sides of a breakpoint have both been resolved
C2_Witness ==
    /\ rega = "com" /\ regb = "asia"
    /\ ida = AddSmall(E8(20), -1) /\ idb = E8(20)

-----------------------------------------------------------------------------
(* The key codec applied to one triple of components *)

KeyInit ==
    /\ kacc \in KeyValues(AccountWidth)
    /\ ktank \in KeyValues(TankWidth)
    /\ klbt \in KeyValues(LbtWidth)       \* last_battle_time of mk_id, added of mk_index
    /\ kregion \in Region \cup { None }
    /\ kid = Unset /\ kindex = Unset
    /\ RegionIdle /\ RecordIdle /\ QueryIdle

MkId ==
    /\ kid = Unset
    /\ kid' = mk_id(kacc, klbt, ktank)
    /\ UNCHANGED << kacc, ktank, klbt, kregion, kindex, regionVars, recordVars, queryVars >>

MkIndex ==
    /\ kindex = Unset
    /\ kindex' = mk_index(kacc, kregion, klbt)
    /\ UNCHANGED << kacc, ktank, klbt, kregion, kid, regionVars, recordVars, queryVars >>

KeyNext == MkId \/ MkIndex

SpecKey == KeyInit /\ [][KeyNext]_vars

-----------------------------------------------------------------------------
(* Claims on the key codec *)

HexVal(c) == (CHOOSE i \in 1 .. Len(HexChars) : HexChars[i] = c) - 1

RECURSIVE ParseHex(_)
ParseHex(s) ==
    IF s = << >> THEN Mk(0, 0)
    ELSE Mul16Add(ParseHex(SubSeq(s, 1, Len(s) - 1)), HexVal(s[Len(s)]))

\* decode of the specification: split the key at columns 10 and 16
Decode(key) ==
    << ParseHex(SubSeq(key, 1, AccountWidth)),
       ParseHex(SubSeq(key, AccountWidth + 1, AccountWidth + TankWidth)),
       ParseHex(SubSeq(key, AccountWidth + TankWidth + 1, ObjectIdLen)) >>

\* 0 <= n < 16^width: n fits a column of width hex digits
InBudget(n, width) == ~IsNeg(n) /\ LT(n, Pow16(width))

\* n needs more than width hex digits
OverBudget(n, width) == GE(n, Pow16(width))

\* C3: for every triple within the digit budgets (account_id < 16^10,
\* tank_id < 16^6, last_battle_time < 16^8) the key built by mk_id has 24 hex
\* digits, and decoding its columns 1-10, 11-16 and 17-24 returns exactly
\* (account_id, tank_id, last_battle_time).
C3_MkIdRoundTrip ==
    (/\ kid # Unset
     /\ InBudget(kacc, AccountWidth)
     /\ InBudget(ktank, TankWidth)
     /\ InBudget(klbt, LbtWidth))
        => /\ kid.st = "ObjectId"
           /\ Len(kid.hex) = 24
           /\ Decode(kid.hex) = << kacc, ktank, klbt >>

\* a key has been built from the largest value of every column
C3_Witness ==
    /\ kid.st = "ObjectId"
    /\ kacc = AddSmall(Pow16(AccountWidth), -1)
    /\ ktank = AddSmall(Pow16(TankWidth), -1)
    /\ klbt = AddSmall(Pow16(LbtWidth), -1)

\* C4: mk_id and mk_index return no key whenever a component needs more hex
\* digits than its column (account > 10, secondary > 6, timestamp > 8 digits):
\* no key is ever built from a truncated component.
C4_OverflowFails ==
    /\ (/\ kid # Unset
        /\ \/ OverBudget(kacc, AccountWidth)
           \/ OverBudget(ktank, TankWidth)
           \/ OverBudget(klbt, LbtWidth))
          => kid = InvalidId
    /\ (/\ kindex # Unset
        /\ \/ OverBudget(kacc, AccountWidth)
           \/ OverBudget(klbt, LbtWidth))
          => kindex = InvalidId

\* both encoders have refused a timestamp of nine hex digits
C4_Witness ==
    /\ kid = InvalidId /\ kindex = InvalidId
    /\ InBudget(kacc, AccountWidth) /\ InBudget(ktank, TankWidth)
    /\ klbt = Pow16(LbtWidth)

-----------------------------------------------------------------------------
(* pydantic: payload values and field validation *)

\* an int, a str, None, or no value at all (the key is not in the dict).  A str
\* is the text "<v>" (parts = 1), "<v>:<suffix>" (parts = 2) or
\* "<v>:<suffix>:<suffix>" (parts = 3)
IntVal(v)                == [t |-> "int", v |-> v, parts |-> 0, suffix |-> ""]
StrVal(v, parts, suffix) == [t |-> "str", v |-> v, parts |-> parts, suffix |-> suffix]
NoneVal                  == [t |-> "None", v |-> Mk(0, 0), parts |-> 0, suffix |-> ""]
AbsentVal                == [t |-> "absent", v |-> Mk(0, 0), parts |-> 0, suffix |-> ""]

\* a region value is a Region token, another token, None, or "absent"
Absent == "absent"

Raise == [ok |-> FALSE, v |-> Mk(0, 0)]
Ok(v) == [ok |-> TRUE, v |-> v]

\* a field of type int: an int is kept, a str goes through int(), which takes
\* only the text of one number; None and a missing required value are errors
IntField(x) ==
    CASE x.t = "int"                   -> Ok(x.v)
      [] x.t = "str" /\ x.parts = 1    -> Ok(x.v)
      [] OTHER                         -> Raise

\* a field of type Region (optional or not): Region(token)
RegionField(tok, optional) ==
    CASE tok \in Region                   -> [ok |-> TRUE, v |-> tok]
      [] tok = None /\ optional           -> [ok |-> TRUE, v |-> None]
      [] OTHER                            -> [ok |-> FALSE, v |-> None]

\* a field's input: the value under the alias and, when the alias is missing,
\* the value under the field name (allow_population_by_field_name)
ByAlias(aliasValue, nameValue, absent) ==
    IF aliasValue # absent THEN aliasValue ELSE nameValue

NoRecord == [kind |-> "none"]

-----------------------------------------------------------------------------
(* Account *)

\* Account.check_id
check_id(v) == IF IsNeg(v) THEN Raise ELSE Ok(v)

\* Account.check_epoch_ge_zero
check_epoch_ge_zero(v) == IF GE(v, Mk(0, 0)) THEN Ok(v) ELSE Raise

RaisedValues(values) == [raised |-> TRUE, values |-> values]
Values(values)       == [raised |-> FALSE, values |-> values]

\* Account.read_account_id refusing an explicit region that differs from the
\* region of the id's range
read_account_id_checked(values) ==
    LET _id     == IF values.id # AbsentVal THEN values.id ELSE values._id
        _region == IF values.region # Absent THEN values.region
                   ELSE IF values.r # Absent THEN values.r ELSE None
    IN  IF values.id = AbsentVal /\ values._id = AbsentVal THEN RaisedValues(values)
        ELSE IF _id # NoneVal /\ _region # None
             THEN IF _region \in Region /\ _region # from_id(_id.v)
                  THEN RaisedValues(values) ELSE Values(values)
        ELSE IF _id.t = "int"
             THEN Values([values EXCEPT !.id = IntVal(_id.v), !.region = from_id(_id.v)])
        ELSE IF _id.t = "str"
             THEN IF _id.parts = 2
                  THEN IF _id.suffix \in Region /\ _id.suffix = from_id(_id.v)
                       THEN Values([values EXCEPT !.id = IntVal(_id.v),
                                                   !.region = _id.suffix])
                       ELSE RaisedValues(values)
                  ELSE Values([values EXCEPT !.id = IntVal(_id.v),
                                              !.region = from_id(_id.v)])
        ELSE RaisedValues(values)

\* Account.read_account_id (root_validator, pre=True)
read_account_id(values) ==
    LET _id     == IF values.id # AbsentVal THEN values.id ELSE values._id
        _region == IF values.region # Absent THEN values.region
                   ELSE IF values.r # Absent THEN values.r ELSE None
    IN  IF values.id = AbsentVal /\ values._id = AbsentVal THEN RaisedValues(values)
        ELSE IF _id # NoneVal /\ _region # None THEN Values(values)
        ELSE IF _id.t = "int"
             THEN Values([values EXCEPT !.id = IntVal(_id.v), !.region = from_id(_id.v)])
        ELSE IF _id.t = "str"
             THEN IF _id.parts = 2
                  THEN IF _id.suffix \in Region
                       THEN Values([values EXCEPT !.id = IntVal(_id.v),
                                                   !.region = _id.suffix])
                       ELSE RaisedValues(values)
                  ELSE Values([values EXCEPT !.id = IntVal(_id.v),
                                              !.region = from_id(_id.v)])
        ELSE RaisedValues(values)

Failed == [ok |-> FALSE, obj |-> NoRecord]
Built(obj) == [ok |-> TRUE, obj |-> obj]

\* the fields of Account after the pre root validator: id (alias _id) with
\* check_id, region (alias r), last_battle_time (alias l) with
\* check_epoch_ge_zero, created_at (alias c), updated_at (alias u)
AccountFields(v) ==
    LET idT  == IntField(ByAlias(v._id, v.id, AbsentVal))
        idV  == IF idT.ok THEN check_id(idT.v) ELSE Raise
        regV == RegionField(ByAlias(v.r, v.region, Absent), FALSE)
        lbtV == check_epoch_ge_zero(v.l)
    IN  IF idV.ok /\ regV.ok /\ lbtV.ok
        THEN Built([kind |-> "Account", id |-> idV.v, region |-> regV.v,
                    last_battle_time |-> lbtV.v,
                    created_at |-> v.c, updated_at |-> v.u])
        ELSE Failed

\* Account(**values)
Account(values) ==
    LET pre == read_account_id(values)
    IN  IF pre.raised THEN Failed ELSE AccountFields(pre.values)

\* account.id = value under validate_assignment: the pre root validators see
\* the object's fields with the new value, then the field itself is validated
Account_setattr_id(obj, value) ==
    LET new_values == [id |-> value, _id |-> AbsentVal,
                       region |-> obj.region, r |-> Absent,
                       l |-> obj.last_battle_time,
                       c |-> obj.created_at, u |-> obj.updated_at]
        pre == read_account_id(new_values)
        idT == IntField(value)
        idV == IF idT.ok THEN check_id(idT.v) ELSE Raise
    IN  IF pre.raised \/ ~idV.ok THEN Failed
        ELSE Built([obj EXCEPT !.id = idV.v, !.region = pre.values.region])

-----------------------------------------------------------------------------
(* Account of models.py: id, region (optional), last_battle_time *)

\* models.Account.read_account_id (root_validator, pre=True): only the key
\* "id" is read, and "i, r = id.split(':')" takes exactly two parts
models_read_account_id(values) ==
    IF values.id.t = "str"
    THEN IF values.id.parts = 2 /\ values.id.suffix \in Region
         THEN Values([values EXCEPT !.id = IntVal(values.id.v),
                                     !.region = values.id.suffix])
         ELSE RaisedValues(values)
    ELSE Values(values)

\* models.Account.set_region (root_validator, skip_on_failure=True)
models_set_region(id, region) == IF region = None THEN from_id(id) ELSE region

\* models.Account(**values)
models_Account(values) ==
    LET pre == models_read_account_id(values)
    IN  IF pre.raised THEN Failed
        ELSE LET v    == pre.values
                 idT  == IntField(ByAlias(v._id, v.id, AbsentVal))
                 idV  == IF idT.ok THEN check_id(idT.v) ELSE Raise
                 tok  == ByAlias(v.r, v.region, Absent)
                 regV == RegionField(IF tok = Absent THEN None ELSE tok, TRUE)
                 lbtV == check_epoch_ge_zero(v.l)
             IN  IF idV.ok /\ regV.ok /\ lbtV.ok
                 THEN Built([kind |-> "models.Account", id |-> idV.v,
                             region |-> models_set_region(idV.v, regV.v),
                             last_battle_time |-> lbtV.v])
                 ELSE Failed

-----------------------------------------------------------------------------
(* WGAccountInfo *)

\* WGAccountInfo.set_region (root_validator): values holds the fields that
\* passed validation, so a rejected account_id is no int and a rejected region
\* is missing
WGAccountInfo_set_region(account_id, region) ==
    IF account_id.ok /\ (~region.ok \/ region.v = None)
    THEN from_id(account_id.v)
    ELSE region.v

\* WGAccountInfo(**values): account_id (alias id), region (alias r)
WGAccountInfo(values) ==
    LET idV  == IntField(values.account_id)
        regV == RegionField(IF values.region = Absent THEN None ELSE values.region, TRUE)
    IN  IF idV.ok /\ regV.ok
        THEN Built([kind |-> "WGAccountInfo", account_id |-> idV.v,
                    region |-> WGAccountInfo_set_region(idV, regV)])
        ELSE Failed

-----------------------------------------------------------------------------
(* WGTankStat *)

LbtTolerance == 36000

\* WGTankStat.validate_lbt (validator, pre=True), at reference clock t
validate_lbt(v, t) == IF GT(v, AddSmall(t, LbtTolerance)) THEN t ELSE v

\* WGTankStat.set_id building the key whether or not the payload brings an id
set_id_always(values, t) ==
    IF values.style = "mixed" THEN RaisedValues(values)
    ELSE LET key == mk_id(values.account_id, values.last_battle_time, values.tank_id)
         IN  IF key = InvalidId THEN RaisedValues(values)
             ELSE Values([values EXCEPT !.id = key])

\* WGTankStat.set_id (root_validator, pre=True).  A payload is keyed by alias
\* (a, lb, t) or by field name (account_id, last_battle_time, tank_id), and the
\* key is built from the three values as they arrive; a payload with "a" but
\* without "lb" or "t" ("mixed") is a KeyError.  Any exception, InvalidId
\* included, is raised again as ValueError.  The clock t is not read.
set_id(values, t) ==
    IF values.id # Unset THEN Values(values)
    ELSE IF values.style = "mixed" THEN RaisedValues(values)
    ELSE LET key == mk_id(values.account_id, values.last_battle_time, values.tank_id)
         IN  IF key = InvalidId THEN RaisedValues(values)
             ELSE Values([values EXCEPT !.id = key])

\* WGTankStat.set_region deriving the region always
WGTankStat_set_region_always(account_id, region) == from_id(account_id)

\* WGTankStat.set_region (root_validator, pre=False)
WGTankStat_set_region(account_id, region) ==
    IF region = None THEN from_id(account_id) ELSE region

\* WGTankStat(**values) at reference clock t: set_id, then the fields (region,
\* last_battle_time through validate_lbt, account_id, tank_id), then set_region.
\* The payload's numbers are ints and its required "all" block is valid.
WGTankStat(values, t) ==
    LET pre == set_id(values, t)
    IN  IF pre.raised THEN Failed
        ELSE LET v    == pre.values
                 regV == RegionField(IF v.region = Absent THEN None ELSE v.region, TRUE)
             IN  IF regV.ok
                 THEN Built([kind |-> "WGTankStat", id |-> v.id,
                             region |-> WGTankStat_set_region(v.account_id, regV.v),
                             last_battle_time |-> validate_lbt(v.last_battle_time, t),
                             account_id |-> v.account_id, tank_id |-> v.tank_id])
                 ELSE Failed

-----------------------------------------------------------------------------
(* The payloads the records are built from *)

Epoch == Mk(17, 0)

NowValues == { AddSmall(Epoch, k) : k \in 0 .. NowSpread }

RegionTokens == { "ru", "eu", "xx", None }

AccountIdInts == Around(Mk(0, 0), RecSpread) \cup Around(E8(5), RecSpread)

AccountIdStrs ==
    { StrVal(E8(5), 1, ""), StrVal(FromInt(-1), 1, ""), StrVal(E8(5), 2, "eu"),
      StrVal(E8(5), 2, "ru"), StrVal(E8(5), 2, "xx"), StrVal(E8(5), 3, "eu") }

AccountIdVals == { IntVal(v) : v \in AccountIdInts } \cup AccountIdStrs \cup { NoneVal }

TimeVals == Around(Mk(0, 0), RecSpread)

SignVals == { FromInt(-1), FromInt(0) }

\* an Account payload: the id under "id" or "_id" or missing, the region under
\* "region" or "r" or missing
AccountPayloads ==
    { [id |-> i, _id |-> a, region |-> g, r |-> r, l |-> l, c |-> c, u |-> u] :
        i \in AccountIdVals \cup { AbsentVal }, a \in AccountIdVals \cup { AbsentVal },
        g \in RegionTokens \cup { Absent }, r \in RegionTokens \cup { Absent },
        l \in TimeVals, c \in SignVals, u \in SignVals }

OneKey(x) == /\ x.id = AbsentVal \/ x._id = AbsentVal
             /\ x.region = Absent \/ x.r = Absent

AccountInfoPayloads ==
    [ account_id : AccountIdVals, region : RegionTokens \cup { Absent } ]

\* an ObjectId the payload brings along
GivenId == ObjectId(Zeros(ObjectIdLen))

LbtVals(t) == Around(AddSmall(t, LbtTolerance), RecSpread)
                 \cup { FromInt(-1), AddSmall(Pow16(LbtWidth), -1), Pow16(LbtWidth) }

TankStatPayloads(t) ==
    [ style : { "alias", "name", "mixed" }, id : { Unset, GivenId },
      region : { "ru", None, Absent },
      account_id : { FromInt(-1), E8(5), Pow16(AccountWidth) },
      tank_id : { FromInt(1), Pow16(TankWidth) },
      last_battle_time : LbtVals(t) ]

-----------------------------------------------------------------------------
(* Records: one record is built from a payload, then assigned to *)

RecordInit ==
    /\ now \in NowValues
    /\ op = "init" /\ payload = NoRecord /\ rec = NoRecord /\ err = "init"
    /\ prev = NoRecord
    /\ RegionIdle /\ KeyIdle /\ QueryIdle

Construct(kind, p, res) ==
    /\ op' = kind
    /\ payload' = [kind |-> kind, values |-> p]
    /\ rec' = res.obj
    /\ err' = IF res.ok THEN "ok" ELSE "ValidationError"
    /\ prev' = NoRecord
    /\ UNCHANGED << now, regionVars, keyVars, queryVars >>

NewAccount ==
    /\ op = "init"
    /\ \E p \in AccountPayloads : OneKey(p) /\ Construct("Account", p, Account(p))

\* models.Account has no created_at and no updated_at: the payload leaves them 0
NewModelsAccount ==
    /\ op = "init"
    /\ \E p \in AccountPayloads :
          /\ OneKey(p) /\ p.c = Mk(0, 0) /\ p.u = Mk(0, 0)
          /\ Construct("models.Account", p, models_Account(p))

NewWGAccountInfo ==
    /\ op = "init"
    /\ \E p \in AccountInfoPayloads : Construct("WGAccountInfo", p, WGAccountInfo(p))

NewWGTankStat ==
    /\ op = "init"
    /\ \E p \in TankStatPayloads(now) : Construct("WGTankStat", p, WGTankStat(p, now))

\* account.id = value: a refused assignment raises and leaves the object as it was
AssignAccountId ==
    /\ rec.kind = "Account"
    /\ \E value \in AccountIdVals :
          LET res == Account_setattr_id(rec, value)
          IN  /\ op' = "Account.id"
              /\ rec' = IF res.ok THEN res.obj ELSE rec
              /\ err' = IF res.ok THEN "ok" ELSE "ValidationError"
    /\ prev' = rec
    /\ UNCHANGED << now, payload, regionVars, keyVars, queryVars >>

RecordNext == \/ NewAccount \/ NewModelsAccount \/ NewWGAccountInfo \/ NewWGTankStat
              \/ AssignAccountId

SpecRecord == RecordInit /\ [][RecordNext]_vars

-----------------------------------------------------------------------------
(* Claims on the records *)

Constructors == { "Account", "WGAccountInfo", "WGTankStat" }

\* Account of account.py and Account of models.py
AccountKinds == { "Account", "models.Account" }

\* the region a payload supplies in its region field ("r" or "region"), or None
FieldRegion(p) ==
    IF p.kind \in AccountKinds
    THEN LET tok == ByAlias(p.values.r, p.values.region, Absent)
         IN  IF tok = Absent THEN None ELSE tok
    ELSE IF p.values.region = Absent THEN None ELSE p.values.region

\* the id value of an Account payload
PayloadId(p) == IF p.values.id # AbsentVal THEN p.values.id ELSE p.values._id

\* the region a payload supplies explicitly: in its region field or, for an
\* Account, as the suffix of an "<id>:<region>" id
SuppliedRegion(p) ==
    IF FieldRegion(p) # None THEN FieldRegion(p)
    ELSE IF p.kind = "Account" /\ PayloadId(p).t = "str" /\ PayloadId(p).parts = 2
         THEN PayloadId(p).suffix
         ELSE None

\* the account id of a record
RecordAccountId(r) == IF r.kind = "Account" THEN r.id ELSE r.account_id

\* C5: a WGTankStat built from a payload without an id stores the id
\* mk_id(account_id, last_battle_time, tank_id) of its final, validated fields
\* (the clamped last_battle_time included), not of the raw values.
C5_KeyFromValidatedFields ==
    (op = "WGTankStat" /\ err = "ok" /\ payload.values.id = Unset)
        => rec.id = mk_id(rec.account_id, rec.last_battle_time, rec.tank_id)

\* the other fields of a WGTankStat payload are acceptable: the payload brings
\* its id, or account_id and tank_id fit their columns
OtherFieldsValid(p) ==
    /\ p.values.style # "mixed"
    /\ \/ p.values.id # Unset
       \/ InBudget(p.values.account_id, AccountWidth) /\ InBudget(p.values.tank_id, TankWidth)

\* C6: a WGTankStat whose last_battle_time v lies more than 36000 s after the
\* reference clock is accepted and stores now; a v of at most now + 36000 is
\* stored unchanged.
C6_ClampAccepted ==
    (op = "WGTankStat" /\ OtherFieldsValid(payload))
        => /\ GT(payload.values.last_battle_time, AddSmall(now, LbtTolerance))
                => (err = "ok" /\ rec.last_battle_time = now)
           /\ (LE(payload.values.last_battle_time, AddSmall(now, LbtTolerance)) /\ err = "ok")
                => rec.last_battle_time = payload.values.last_battle_time

\* C7: after a successful construction of an Account, a WGAccountInfo or a
\* WGTankStat the region is the explicitly supplied region when one was
\* supplied, and Region.from_id of the account id when none was.
C7_RegionExplicitOrDerived ==
    (op \in Constructors /\ err = "ok")
        => rec.region = IF SuppliedRegion(payload) # None
                        THEN SuppliedRegion(payload)
                        ELSE from_id(RecordAccountId(rec))

\* a WGTankStat kept the region of its payload, which is not that of its id
C7_Witness ==
    /\ op = "WGTankStat" /\ err = "ok"
    /\ payload.values.region = "ru" /\ rec.region = "ru"
    /\ from_id(rec.account_id) = "eu"

C9_DerivedRegionFollowsId ==
    (rec.kind = "Account" /\ SuppliedRegion(payload) = None)
        => rec.region = from_id(rec.id)

\* C10: the construction of an Account fails whenever its id or one of its
\* timestamps (last_battle_time, created_at, updated_at) is negative.
C10_NegativeRejected ==
    (/\ op = "Account"
     /\ \/ PayloadId(payload).t \in { "int", "str" } /\ IsNeg(PayloadId(payload).v)
        \/ IsNeg(payload.values.l)
        \/ IsNeg(payload.values.c)
        \/ IsNeg(payload.values.u))
        => err = "ValidationError"

-----------------------------------------------------------------------------
(* The unsettable fields of WGTankStat and WGTankStatAll.  The records are   *)
(* restricted to these fields; "rest" tells whether the other fields of the  *)
(* payload validate.                                                         *)

\* unset returning what it is given
unset_keep(v) == v

\* WGTankStat.unset, WGTankStatAll.unset (validator): return None
unset(v) == NoneVal

\* a field "int | None" given a value: None is allowed, any other value is
\* made an int
IntOrNone(x) ==
    CASE x = NoneVal        -> Ok(NoneVal)
      [] IntField(x).ok     -> Ok(IntVal(IntField(x).v))
      [] OTHER              -> Raise

\* a field "bool | None" given a value: of the values drawn here only 0 and 1
\* (and their text) are booleans
BoolOrNone(x) ==
    CASE x = NoneVal        -> Ok(NoneVal)
      [] IntField(x).ok /\ IntField(x).v \in { Mk(0, 0), Mk(0, 1) }
                            -> Ok(IntVal(IntField(x).v))
      [] OTHER              -> Raise

\* the unsettable fields of WGTankStat and of WGTankStatAll, in declaration order
TankStatUnsettable    == << "max_xp", "in_garage_updated", "max_frags", "frags", "in_garage" >>
TankStatAllUnsettable == << "max_xp", "frags8p", "xp" >>

Range(s) == { s[i] : i \in 1 .. Len(s) }

\* the validation of one unsettable field: a missing value takes the default
\* None and no validator runs (unset has no always=True); a given value is
\* validated for its type first and then handed to unset
UnsettableField(name, x) ==
    IF x = AbsentVal THEN Ok(NoneVal)
    ELSE LET v == IF name = "in_garage" THEN BoolOrNone(x) ELSE IntOrNone(x)
         IN  IF v.ok THEN Ok(unset(v.v)) ELSE Raise

\* WGTankStat(**values) and WGTankStatAll(**values), the unsettable fields
Unsettable(kind, names, values) ==
    IF values.rest /\ \A n \in Range(names) : UnsettableField(n, values[n]).ok
    THEN Built([kind |-> kind,
                fields |-> [ n \in Range(names) |-> UnsettableField(n, values[n]).v ]])
    ELSE Failed

\* setattr(obj, name, value) under validate_assignment, for an unsettable
\* field: set_id (pre) finds the id and set_region (post) writes the region
\* only, so the assignment stands or falls with the field's own validation
Unsettable_setattr(obj, name, value) ==
    LET v == UnsettableField(name, value)
    IN  IF v.ok THEN Built([obj EXCEPT !.fields[name] = v.v]) ELSE Failed

\* the values a payload or an assignment gives an unsettable field
UnsettableVals ==
    { NoneVal, IntVal(FromInt(1)), IntVal(FromInt(5)), StrVal(FromInt(5), 2, "eu") }

UnsettablePayloads(names) ==
    { [ n \in Range(names) \cup { "rest" } |-> IF n = "rest" THEN b ELSE f[n] ] :
        b \in BOOLEAN, f \in [ Range(names) -> UnsettableVals \cup { AbsentVal } ] }

UnsetInit ==
    /\ now = Mk(0, 0)
    /\ op = "init" /\ payload = NoRecord /\ rec = NoRecord /\ err = "init"
    /\ prev = NoRecord
    /\ RegionIdle /\ KeyIdle /\ QueryIdle

NewWGTankStatUnsettable ==
    /\ op = "init"
    /\ \E p \in UnsettablePayloads(TankStatUnsettable) :
          Construct("WGTankStat", p, Unsettable("WGTankStat", TankStatUnsettable, p))

NewWGTankStatAll ==
    /\ op = "init"
    /\ \E p \in UnsettablePayloads(TankStatAllUnsettable) :
          Construct("WGTankStatAll", p, Unsettable("WGTankStatAll", TankStatAllUnsettable, p))

\* obj.<name> = value for an unsettable field of the record
AssignUnsettable ==
    /\ rec.kind \in { "WGTankStat", "WGTankStatAll" }
    /\ \E name \in DOMAIN rec.fields, value \in UnsettableVals :
          LET res == Unsettable_setattr(rec, name, value)
          IN  /\ op' = name
              /\ rec' = IF res.ok THEN res.obj ELSE rec
              /\ err' = IF res.ok THEN "ok" ELSE "ValidationError"
    /\ prev' = rec
    /\ UNCHANGED << now, payload, regionVars, keyVars, queryVars >>

\* obj.<name> = value for another field: accepted or refused, the unsettable
\* fields stay as they are
AssignOtherField ==
    /\ rec.kind \in { "WGTankStat", "WGTankStatAll" }
    /\ op' = "other"
    /\ err' \in { "ok", "ValidationError" }
    /\ prev' = rec
    /\ UNCHANGED << now, payload, rec, regionVars, keyVars, queryVars >>

UnsetNext == \/ NewWGTankStatUnsettable \/ NewWGTankStatAll
             \/ AssignUnsettable \/ AssignOtherField

SpecUnset == UnsetInit /\ [][UnsetNext]_vars

\* C11: in every state of a WGTankStat (after construction from any payload
\* and after any assignment) max_frags, frags, max_xp, in_garage and
\* in_garage_updated are None, and in every state of a WGTankStatAll frags8p,
\* xp and max_xp are None, whatever values were supplied.
C11_UnsettableAreNone ==
    /\ rec.kind = "WGTankStat"
          => /\ DOMAIN rec.fields =
                   { "max_frags", "frags", "max_xp", "in_garage", "in_garage_updated" }
             /\ \A n \in DOMAIN rec.fields : rec.fields[n] = NoneVal
    /\ rec.kind = "WGTankStatAll"
          => /\ DOMAIN rec.fields = { "frags8p", "xp", "max_xp" }
             /\ \A n \in DOMAIN rec.fields : rec.fields[n] = NoneVal

\* a WGTankStat built from a payload with max_frags = 5 has accepted an
\* assignment to frags
C11_Witness ==
    /\ rec.kind = "WGTankStat" /\ payload.values.max_frags = IntVal(FromInt(5))
    /\ op = "frags" /\ err = "ok"

-----------------------------------------------------------------------------
(* Release: the release string, its validation and next().  launch_date    *)
(* keeps its default None.  The numbers of a release are small and are     *)
(* plain integers here.                                                     *)

\* the release strings drawn have 1 .. MaxComponents components
MaxComponents == 4

DigitChars == << "0", "1", "2", "3", "4", "5", "6", "7", "8", "9" >>

IsDigit(c) == \E i \in 1 .. Len(DigitChars) : DigitChars[i] = c

DigitVal(c) == (CHOOSE i \in 1 .. Len(DigitChars) : DigitChars[i] = c) - 1

RECURSIVE ParseDigits(_)
ParseDigits(s) ==
    IF s = << >> THEN 0
    ELSE ParseDigits(SubSeq(s, 1, Len(s) - 1)) * 10 + DigitVal(s[Len(s)])

\* int(s) for a text without blanks and underscores: an optional sign, then
\* one digit or more; anything else is a ValueError
int(s) ==
    LET signed == Len(s) > 0 /\ s[1] \in { "+", "-" }
        body   == IF signed THEN Tail(s) ELSE s
    IN  IF body = << >> \/ \E i \in 1 .. Len(body) : ~IsDigit(body[i])
        THEN Raise
        ELSE Ok(IF signed /\ s[1] = "-" THEN 0 - ParseDigits(body) ELSE ParseDigits(body))

RECURSIVE DecDigits(_)
DecDigits(n) ==
    IF n < 10 THEN << DigitChars[n + 1] >>
    ELSE DecDigits(n \div 10) \o << DigitChars[(n % 10) + 1] >>

\* str(n)
str(n) == IF n < 0 THEN << "-" >> \o DecDigits(0 - n) ELSE DecDigits(n)

\* s.split(sep) for a separator of one character
RECURSIVE split(_, _)
split(s, sep) ==
    IF \A i \in 1 .. Len(s) : s[i] # sep THEN << s >>
    ELSE LET i == CHOOSE k \in 1 .. Len(s) :
                     s[k] = sep /\ \A j \in 1 .. (k - 1) : s[j] # sep
         IN  << SubSeq(s, 1, i - 1) >> \o split(SubSeq(s, i + 1, Len(s)), sep)

\* sep.join(parts)
RECURSIVE join(_, _)
join(sep, parts) ==
    IF parts = << >> THEN << >>
    ELSE IF Len(parts) = 1 THEN parts[1]
    ELSE parts[1] \o << sep >> \o join(sep, Tail(parts))

\* Release._release_number
_release_number(rel) ==
    LET parts == split(rel, ".")
    IN  IF \A i \in 1 .. Len(parts) : int(parts[i]).ok
        THEN Ok([ i \in 1 .. Len(parts) |-> int(parts[i]).v ])
        ELSE Raise

\* Release._release_str
_release_str(rel) == join(".", [ i \in 1 .. Len(rel) |-> str(rel[i]) ])

\* Release.validate_release (validator)
validate_release(v) ==
    LET rel == _release_number(v)
    IN  IF rel.ok THEN Ok(_release_str(rel.v)) ELSE Raise

\* Release(release=v)
Release(v) ==
    LET r == validate_release(v)
    IN  IF r.ok THEN Built([kind |-> "Release", release |-> r.v]) ELSE Failed

\* Release.next with the ceiling one release later
Release_next_late(self) ==
    LET rel == _release_number(self.release).v
    IN  IF Len(rel) < 2 THEN Failed
        ELSE IF rel[2] <= 10 THEN Release(_release_str(<< rel[1], rel[2] + 1 >>))
        ELSE Release(_release_str(<< rel[1] + 1, 0 >>))

\* Release.next (no keyword arguments): rel[1] of a release of one component
\* is an IndexError
Release_next(self) ==
    LET rel == _release_number(self.release).v
    IN  IF Len(rel) < 2 THEN Failed
        ELSE IF rel[2] < 10 THEN Release(_release_str(<< rel[1], rel[2] + 1 >>))
        ELSE Release(_release_str(<< rel[1] + 1, 0 >>))

\* the texts of one component: numbers on both sides of the ceiling, a number
\* with a leading zero, a negative number, a word and the empty text
ComponentTexts ==
    { << "1" >>, << "9" >>, << "1", "0" >>, << "1", "1" >>, << "0", "1" >>,
      << "-", "1" >>, << "a" >>, << >> }

ReleaseTexts ==
    { join(".", parts) :
        parts \in UNION { [ 1 .. n -> ComponentTexts ] : n \in 1 .. MaxComponents } }

ReleaseInit ==
    /\ now = Mk(0, 0)
    /\ op = "init" /\ payload = NoRecord /\ rec = NoRecord /\ err = "init"
    /\ prev = NoRecord
    /\ RegionIdle /\ KeyIdle /\ QueryIdle

NewRelease ==
    /\ op = "init"
    /\ \E v \in ReleaseTexts : Construct("Release", [release |-> v], Release(v))

\* release.next() on the release just built
NextRelease ==
    /\ op = "Release" /\ rec.kind = "Release"
    /\ LET res == Release_next(rec)
       IN  /\ op' = "next"
           /\ rec' = res.obj
           /\ err' = IF res.ok THEN "ok" ELSE "IndexError"
    /\ prev' = rec
    /\ UNCHANGED << now, payload, regionVars, keyVars, queryVars >>

ReleaseNext == NewRelease \/ NextRelease

SpecRelease == ReleaseInit /\ [][ReleaseNext]_vars

\* an integer as the specification writes it: an optional sign, then digits
IsIntegerText(c) ==
    LET body == IF Len(c) > 0 /\ c[1] \in { "+", "-" } THEN Tail(c) ELSE c
    IN  Len(body) > 0 /\ \A i \in 1 .. Len(body) : IsDigit(body[i])

Components(text) == split(text, ".")

\* C12: Release validation accepts a release string exactly when it consists
\* of two or three dot-separated integer components, and then stores it with
\* the same number of components; every other string fails validation and
\* yields no Release.
C12_TwoOrThreeComponents ==
    op = "Release" =>
        LET parts == Components(payload.values.release)
        IN  /\ err = "ok" <=> (/\ Len(parts) \in { 2, 3 }
                               /\ \A i \in 1 .. Len(parts) : IsIntegerText(parts[i]))
            /\ err = "ok" => Len(Components(rec.release)) = Len(parts)
            /\ err # "ok" => rec = NoRecord

\* C13: Release.next() on a release MAJOR.MINOR returns MAJOR.(MINOR+1) when
\* MINOR < 10 and (MAJOR+1).0 when MINOR >= 10; next("11.9") is "11.10" and
\* next("11.10") is "12.0".
C13_NextIncrementsToCeiling ==
    (op = "next" /\ Len(Components(prev.release)) = 2) =>
        LET major == int(Components(prev.release)[1]).v
            minor == int(Components(prev.release)[2]).v
        IN  /\ err = "ok"
            /\ minor < 10  => rec.release = str(major) \o << "." >> \o str(minor + 1)
            /\ minor >= 10 => rec.release = str(major + 1) \o << ".", "0" >>
            /\ prev.release = << "1", "1", ".", "9" >>
                  => rec.release = << "1", "1", ".", "1", "0" >>
            /\ prev.release = << "1", "1", ".", "1", "0" >>
                  => rec.release = << "1", "2", ".", "0" >>

\* next() of the release 11.10 has returned 12.0
C13_Witness ==
    /\ op = "next" /\ err = "ok"
    /\ prev.release = << "1", "1", ".", "1", "0" >>
    /\ rec.release = << "1", "2", ".", "0" >>

-----------------------------------------------------------------------------
(* Normalizing a record again: Account, WGTankStat and Release are built    *)
(* a second time from the fields of an instance                             *)

\* the fields of a record, by field name, as the payload of its constructor
FieldValues(r) ==
    CASE r.kind = "Account" ->
            [id |-> IntVal(r.id), _id |-> AbsentVal, region |-> r.region, r |-> Absent,
             l |-> r.last_battle_time, c |-> r.created_at, u |-> r.updated_at]
      [] r.kind = "WGTankStat" ->
            [style |-> "name", id |-> r.id, region |-> r.region,
             account_id |-> r.account_id, tank_id |-> r.tank_id,
             last_battle_time |-> r.last_battle_time]
      [] r.kind = "Release" -> [release |-> r.release]

\* type(r)(**fields of r) at reference clock t
Again(r, t) ==
    CASE r.kind = "Account"    -> Account(FieldValues(r))
      [] r.kind = "WGTankStat" -> WGTankStat(FieldValues(r), t)
      [] r.kind = "Release"    -> Release(FieldValues(r).release)

Normalized == { "Account", "WGTankStat", "Release" }

\* the record is replaced by the one built from its fields
Renormalize ==
    /\ rec.kind \in Normalized
    /\ op # "again"
    /\ LET res == Again(rec, now)
       IN  /\ op' = "again"
           /\ rec' = res.obj
           /\ err' = IF res.ok THEN "ok" ELSE "ValidationError"
    /\ prev' = rec
    /\ UNCHANGED << now, payload, regionVars, keyVars, queryVars >>

NormalizeNext == \/ NewAccount \/ NewWGTankStat \/ NewRelease
                 \/ AssignAccountId \/ Renormalize

SpecNormalize == RecordInit /\ [][NormalizeNext]_vars

\* C14: constructing an Account, Release or WGTankStat from the field values
\* of an already-constructed instance of the same kind, at the same reference
\* clock, yields a record equal field for field to the original.
C14_NormalizeIdempotent ==
    op = "again" => (err = "ok" /\ rec = prev)

\* a WGTankStat whose last_battle_time had been clamped to the clock was
\* built again from its fields
C14_Witness ==
    /\ op = "again" /\ err = "ok" /\ rec.kind = "WGTankStat"
    /\ payload.values.id = Unset
    /\ GT(payload.values.last_battle_time, AddSmall(now, LbtTolerance))
    /\ rec.last_battle_time = now

-----------------------------------------------------------------------------
(* WoTBlitzReplayJSON: the queries on a replay.  Of data.summary the model  *)
(* keeps allies, enemies, details (dbid and squad_index), battle_result and *)
(* winner_team; a viewpoint is an int or None.                              *)

\* player in lst
In(p, lst) == p.t = "int" /\ \E i \in 1 .. Len(lst) : lst[i] = p.v

Returned(v) == [st |-> "returned", value |-> v]
Raised(e)   == [st |-> "raised", value |-> e]
NotCalled   == [st |-> "unset", value |-> << >>]

\* WoTBlitzReplayJSON.get_enemies
get_enemies(self, p) ==
    IF p = NoneVal \/ In(p, self.allies) THEN Returned(self.enemies)
    ELSE IF In(p, self.enemies) THEN Returned(self.allies)
    ELSE Raised("ValueError: not found in replay")

\* WoTBlitzReplayJSON.get_allies returning the recorded allies to both sides
get_allies_recorded(self, p) ==
    IF p = NoneVal \/ In(p, self.allies) \/ In(p, self.enemies) THEN Returned(self.allies)
    ELSE Raised("ValueError: not found in replay")

\* WoTBlitzReplayJSON.get_allies
get_allies(self, p) ==
    IF p = NoneVal \/ In(p, self.allies) THEN Returned(self.allies)
    ELSE IF In(p, self.enemies) THEN Returned(self.enemies)
    ELSE Raised("ValueError: not found in replay")

\* defaultdict(list): d[k].append(x)
Append_at(d, k, x) ==
    IF k \in DOMAIN d THEN [d EXCEPT ![k] = Append(@, x)]
    ELSE [ j \in DOMAIN d \cup { k } |-> IF j = k THEN << x >> ELSE d[j] ]

\* the loop of get_platoons taking squad_index 0 for a platoon
RECURSIVE platoons_loop_from_zero(_, _, _, _)
platoons_loop_from_zero(details, allies, i, maps) ==
    IF i > Len(details) THEN maps
    ELSE LET d == details[i]
         IN  IF d.squad_index # NoneVal /\ GE(d.squad_index.v, Mk(0, 0))
             THEN IF \E j \in 1 .. Len(allies) : allies[j] = d.dbid
                  THEN platoons_loop_from_zero(details, allies, i + 1,
                          [maps EXCEPT !.allied = Append_at(@, d.squad_index.v, d.dbid)])
                  ELSE platoons_loop_from_zero(details, allies, i + 1,
                          [maps EXCEPT !.enemy = Append_at(@, d.squad_index.v, d.dbid)])
             ELSE platoons_loop_from_zero(details, allies, i + 1, maps)

\* the loop of get_platoons over details[i ..], from the maps built so far
RECURSIVE platoons_loop(_, _, _, _)
platoons_loop(details, allies, i, maps) ==
    IF i > Len(details) THEN maps
    ELSE LET d == details[i]
         IN  IF d.squad_index # NoneVal /\ GT(d.squad_index.v, Mk(0, 0))
             THEN IF \E j \in 1 .. Len(allies) : allies[j] = d.dbid
                  THEN platoons_loop(details, allies, i + 1,
                          [maps EXCEPT !.allied = Append_at(@, d.squad_index.v, d.dbid)])
                  ELSE platoons_loop(details, allies, i + 1,
                          [maps EXCEPT !.enemy = Append_at(@, d.squad_index.v, d.dbid)])
             ELSE platoons_loop(details, allies, i + 1, maps)

\* WoTBlitzReplayJSON.get_platoons: the ValueError of get_allies passes through
get_platoons(self, p) ==
    LET allies == get_allies(self, p)
    IN  IF allies.st = "raised" THEN allies
        ELSE Returned(platoons_loop(self.details, allies.value, 1,
                                    [allied |-> << >>, enemy |-> << >>]))

EnumWinnerTeam   == { "draw", "one", "two" }
EnumBattleResult == { "incomplete", "not_win", "win", "loss", "draw" }

\* get_battle_result looking at the viewpoint before the stored incomplete
get_battle_result_side_first(self, p) ==
    IF p # NoneVal /\ In(p, get_enemies(self, NoneVal).value)
    THEN IF self.battle_result = "win" THEN Returned("loss")
         ELSE IF self.winner_team = "draw" THEN Returned("draw")
         ELSE Returned("win")
    ELSE IF self.battle_result = "incomplete" THEN Returned("incomplete")
    ELSE IF p = NoneVal \/ In(p, get_allies(self, NoneVal).value)
    THEN IF self.battle_result = "win" THEN Returned("win")
         ELSE IF self.winner_team = "draw" THEN Returned("draw")
         ELSE Returned("loss")
    ELSE Returned("incomplete")

\* get_battle_result asking get_enemies and get_allies with the viewpoint
get_battle_result_asking(self, p) ==
    IF self.battle_result = "incomplete" THEN Returned("incomplete")
    ELSE IF get_enemies(self, p).st = "raised" THEN Raised("Exception: Error reading replay")
    ELSE IF p # NoneVal /\ In(p, self.enemies) /\ ~In(p, self.allies)
    THEN IF self.battle_result = "win" THEN Returned("loss")
         ELSE IF self.winner_team = "draw" THEN Returned("draw")
         ELSE Returned("win")
    ELSE IF self.battle_result = "win" THEN Returned("win")
         ELSE IF self.winner_team = "draw" THEN Returned("draw")
         ELSE Returned("loss")

\* WoTBlitzReplayJSON.get_battle_result: get_enemies() and get_allies() are
\* called without a viewpoint and cannot raise, so the except branch is dead
get_battle_result(self, p) ==
    IF self.battle_result = "incomplete" THEN Returned("incomplete")
    ELSE IF p # NoneVal /\ In(p, get_enemies(self, NoneVal).value)
    THEN IF self.battle_result = "win" THEN Returned("loss")
         ELSE IF self.winner_team = "draw" THEN Returned("draw")
         ELSE Returned("win")
    ELSE IF p = NoneVal \/ In(p, get_allies(self, NoneVal).value)
    THEN IF self.battle_result = "win" THEN Returned("win")
         ELSE IF self.winner_team = "draw" THEN Returned("draw")
         ELSE Returned("loss")
    ELSE Returned("incomplete")

\* the detail lists drawn have 0 .. MaxDetails records
MaxDetails == 2

\* two participants and an account that took no part
P1 == FromInt(100)
P2 == FromInt(300)
Outsider == FromInt(999)

\* the recorded allies and enemies: lists over the participants, which may be
\* empty and may overlap
Sides == { << >>, << P1 >>, << P2 >>, << P1, P2 >> }

DetailRecords ==
    [ dbid : { P1, P2 },
      squad_index : { NoneVal, IntVal(FromInt(0)), IntVal(FromInt(1)), IntVal(FromInt(2)) } ]

DetailLists == UNION { [ 1 .. n -> DetailRecords ] : n \in 0 .. MaxDetails }

\* the replays: get_battle_result does not read the details and get_platoons
\* does not read the outcome, so one of the two is held fixed
Replays ==
    { r \in [ kind : { "WoTBlitzReplayJSON" }, allies : Sides, enemies : Sides,
              details : DetailLists,
              battle_result : EnumBattleResult \cup { None },
              winner_team : EnumWinnerTeam \cup { None } ] :
        r.details = << >> \/ (r.battle_result = "win" /\ r.winner_team = "one") }

Viewpoints == { NoneVal, IntVal(P1), IntVal(P2), IntVal(Outsider) }

ReplayInit ==
    /\ subject \in Replays
    /\ player \in Viewpoints
    /\ ret = [get_allies |-> NotCalled, get_enemies |-> NotCalled,
              get_platoons |-> NotCalled, get_battle_result |-> NotCalled]
    /\ heap = << >>
    /\ RegionIdle /\ KeyIdle /\ RecordIdle

GetAllies ==
    /\ subject.kind = "WoTBlitzReplayJSON" /\ ret.get_allies = NotCalled
    /\ ret' = [ret EXCEPT !.get_allies = get_allies(subject, player)]
    /\ UNCHANGED << subject, player, heap, regionVars, keyVars, recordVars >>

GetEnemies ==
    /\ subject.kind = "WoTBlitzReplayJSON" /\ ret.get_enemies = NotCalled
    /\ ret' = [ret EXCEPT !.get_enemies = get_enemies(subject, player)]
    /\ UNCHANGED << subject, player, heap, regionVars, keyVars, recordVars >>

GetPlatoons ==
    /\ subject.kind = "WoTBlitzReplayJSON" /\ ret.get_platoons = NotCalled
    /\ ret' = [ret EXCEPT !.get_platoons = get_platoons(subject, player)]
    /\ UNCHANGED << subject, player, heap, regionVars, keyVars, recordVars >>

GetBattleResult ==
    /\ subject.kind = "WoTBlitzReplayJSON" /\ ret.get_battle_result = NotCalled
    /\ ret' = [ret EXCEPT !.get_battle_result = get_battle_result(subject, player)]
    /\ UNCHANGED << subject, player, heap, regionVars, keyVars, recordVars >>

ReplayNext == GetAllies \/ GetEnemies \/ GetPlatoons \/ GetBattleResult

SpecReplay == ReplayInit /\ [][ReplayNext]_vars

-----------------------------------------------------------------------------
(* Claims on the replay queries *)

Called(q) == ret[q].st # "unset"

\* the viewpoint is recorded on this side only
OnlyAlly  == In(player, subject.allies) /\ ~In(player, subject.enemies)
OnlyEnemy == In(player, subject.enemies) /\ ~In(player, subject.allies)
InNeither == player # NoneVal /\ ~In(player, subject.allies) /\ ~In(player, subject.enemies)

\* C15: get_allies(p) and get_enemies(p) return the recorded allies and
\* enemies when there is no viewpoint; with a viewpoint p in exactly one
\* recorded list they return the list containing p as allies and the other
\* list as enemies; with a viewpoint in neither list both fail with a
\* 'not found' ValueError.
C15_AlliesAndEnemies ==
    /\ (Called("get_allies") /\ (player = NoneVal \/ OnlyAlly))
          => ret.get_allies = Returned(subject.allies)
    /\ (Called("get_enemies") /\ (player = NoneVal \/ OnlyAlly))
          => ret.get_enemies = Returned(subject.enemies)
    /\ (Called("get_allies") /\ OnlyEnemy) => ret.get_allies = Returned(subject.enemies)
    /\ (Called("get_enemies") /\ OnlyEnemy) => ret.get_enemies = Returned(subject.allies)
    /\ (Called("get_allies") /\ InNeither)
          => ret.get_allies = Raised("ValueError: not found in replay")
    /\ (Called("get_enemies") /\ InNeither)
          => ret.get_enemies = Raised("ValueError: not found in replay")

\* both lists have been asked for from the enemy side
C15_Witness ==
    /\ subject.allies = << P1 >> /\ subject.enemies = << P2 >> /\ player = IntVal(P2)
    /\ ret.get_allies = Returned(<< P2 >>) /\ ret.get_enemies = Returned(<< P1 >>)

\* how often account a is listed under key k of a platoon map
Entries(map, k, a) ==
    IF k \in DOMAIN map
    THEN Cardinality({ i \in 1 .. Len(map[k]) : map[k][i] = a })
    ELSE 0

\* the detail records of account a with squad_index k
DetailsOf(k, a) ==
    { i \in 1 .. Len(subject.details) :
        subject.details[i] = [dbid |-> a, squad_index |-> IntVal(k)] }

SquadKeys(maps) ==
    DOMAIN maps.allied \cup DOMAIN maps.enemy
        \cup { subject.details[i].squad_index.v : i \in 1 .. Len(subject.details) }

\* C16: get_platoons(p) lists every detail record whose squad_index is
\* greater than zero exactly once, under the key equal to its squad_index, in
\* the allied map if its dbid is in get_allies(p) and in the enemy map
\* otherwise; detail records with squad_index 0 or absent are in neither map.
C16_Platoons ==
    ret.get_platoons.st = "returned" =>
        LET maps   == ret.get_platoons.value
            allies == get_allies(subject, player).value
            ally(a) == \E j \in 1 .. Len(allies) : allies[j] = a
        IN  \A k \in SquadKeys(maps), a \in { P1, P2, Outsider } :
               LET n == IF GT(k, Mk(0, 0)) THEN Cardinality(DetailsOf(k, a)) ELSE 0
               IN  /\ Entries(maps.allied, k, a) = IF ally(a) THEN n ELSE 0
                   /\ Entries(maps.enemy, k, a)  = IF ally(a) THEN 0 ELSE n

\* two detail records share squad_index 2, one on each side, and a query
\* without a viewpoint has put each under key 2 of its map
C16_Witness ==
    /\ subject.allies = << P1 >> /\ subject.enemies = << P2 >> /\ player = NoneVal
    /\ subject.details = << [dbid |-> P1, squad_index |-> IntVal(FromInt(2))],
                            [dbid |-> P2, squad_index |-> IntVal(FromInt(2))] >>
    /\ ret.get_platoons.st = "returned"
    /\ ret.get_platoons.value.allied[FromInt(2)] = << P1 >>
    /\ ret.get_platoons.value.enemy[FromInt(2)] = << P2 >>

\* C17: if the stored battle_result is incomplete, get_battle_result(p)
\* returns incomplete for every viewpoint p: none, an ally, an enemy, or an
\* id in neither list.
C17_IncompleteStays ==
    (Called("get_battle_result") /\ subject.battle_result = "incomplete")
        => ret.get_battle_result = Returned("incomplete")

\* an incomplete replay has been asked for its result from the enemy side
C17_Witness ==
    /\ subject.battle_result = "incomplete" /\ OnlyEnemy
    /\ ret.get_battle_result = Returned("incomplete")

\* the recorded outcome as C18 reads it: win, loss (also for not_win), draw
Recorded(battle_result) == IF battle_result = "not_win" THEN "loss" ELSE battle_result

\* C18: for a stored battle_result other than incomplete, get_battle_result
\* with no viewpoint or an ally viewpoint returns the recorded outcome (win
\* stays win, loss / not_win is loss, draw is draw); from the enemy side a
\* recorded win becomes loss and a recorded loss / not_win becomes win; a
\* recorded draw (battle_result = draw) is draw from either side.
C18_OutcomeByViewpoint ==
    (/\ Called("get_battle_result")
     /\ subject.battle_result \in { "not_win", "win", "loss", "draw" })
        => /\ (player = NoneVal \/ OnlyAlly)
                 => ret.get_battle_result = Returned(Recorded(subject.battle_result))
           /\ (OnlyEnemy /\ subject.battle_result = "win")
                 => ret.get_battle_result = Returned("loss")
           /\ (OnlyEnemy /\ subject.battle_result \in { "loss", "not_win" })
                 => ret.get_battle_result = Returned("win")
           /\ ((OnlyAlly \/ OnlyEnemy) /\ subject.battle_result = "draw")
                 => ret.get_battle_result = Returned("draw")

\* C19: get_battle_result(p) with a viewpoint p in neither the recorded
\* allies nor the recorded enemies returns incomplete and does not raise,
\* although get_allies(p) and get_enemies(p) raise for the same p.
C19_OutsiderIsIncomplete ==
    InNeither
        => /\ Called("get_battle_result") => ret.get_battle_result = Returned("incomplete")
           /\ Called("get_allies") => ret.get_allies.st = "raised"
           /\ Called("get_enemies") => ret.get_enemies.st = "raised"

\* a won replay has answered incomplete to an outsider whom get_allies and
\* get_enemies refused
C19_Witness ==
    /\ player = IntVal(Outsider) /\ subject.battle_result = "win"
    /\ subject.allies = << P1 >> /\ subject.enemies = << P2 >>
    /\ ret.get_battle_result = Returned("incomplete")
    /\ ret.get_allies.st = "raised" /\ ret.get_enemies.st = "raised"

-----------------------------------------------------------------------------
(* Transformations: Tank.transform, WGplayerAchievementsMaxSeries.transform *)
(* and WoTBlitzReplayData.transform applied to an object of any kind        *)

\* Python's None where an object is expected
NoneObj == [kind |-> "None"]

\* the members of EnumVehicleTypeInt and of EnumVehicleTypeStr have these names
VehicleTypeNames == { "light_tank", "medium_tank", "heavy_tank", "tank_destroyer" }

\* no member: the field holds None
NoEnum == [enum |-> "None", name |-> ""]

\* EnumVehicleTypeInt[name]
EnumVehicleTypeInt(name) ==
    IF name \in VehicleTypeNames
    THEN Returned([enum |-> "EnumVehicleTypeInt", name |-> name])
    ELSE Raised("KeyError")

\* "except Exception" left out: what the body raises leaves the method
Uncaught(r) == r

\* try: ... except Exception as err: error(f'{err}'), then return None
Caught(r) == IF r.st = "raised" THEN Returned(NoneObj) ELSE r

\* Tank._transform_WGTank: the Tank built from the fields of a WGTank
_transform_WGTank(in_obj) ==
    LET tank_type == IF in_obj.type = NoEnum THEN Returned(NoEnum)
                     ELSE EnumVehicleTypeInt(in_obj.type.name)
    IN  Caught(IF tank_type.st = "raised" THEN tank_type
               ELSE Returned([kind |-> "Tank", tank_id |-> in_obj.id,
                              tier |-> in_obj.tier, type |-> tank_type.value,
                              is_premium |-> in_obj.is_premium]))

\* Tank.transform
Tank_transform(in_obj) ==
    Caught(IF in_obj.kind = "WGTank" THEN _transform_WGTank(in_obj)
           ELSE Returned(NoneObj))

\* ms.<name> = value with set_region_id building the id only when there is none
MaxSeries_setattr_id_once(ms, name, value) ==
    LET nv     == [ms EXCEPT ![name] = value]
        region == IF nv.region = None /\ GT(nv.account_id, Mk(0, 0))
                  THEN from_id(nv.account_id) ELSE nv.region
        id     == IF nv.id = Unset THEN mk_index(nv.account_id, region, nv.added) ELSE nv.id
    IN  IF name = "region" /\ ~RegionField(value, TRUE).ok THEN Raised("ValidationError")
        ELSE IF id = InvalidId THEN Raised("InvalidId")
        ELSE Returned([nv EXCEPT !.region = region, !.id = id])

\* ms.<name> = value on a WGplayerAchievementsMaxSeries (validate_assignment):
\* the field is validated (a region must be a Region or None), set_region_id
\* derives the region and builds the id again, and the InvalidId of mk_id
\* leaves the assignment as an exception
MaxSeries_setattr(ms, name, value) ==
    LET nv     == [ms EXCEPT ![name] = value]
        region == IF nv.region = None /\ GT(nv.account_id, Mk(0, 0))
                  THEN from_id(nv.account_id) ELSE nv.region
        id     == mk_index(nv.account_id, region, nv.added)
    IN  IF name = "region" /\ ~RegionField(value, TRUE).ok THEN Raised("ValidationError")
        ELSE IF id = InvalidId THEN Raised("InvalidId")
        ELSE Returned([nv EXCEPT !.region = region, !.id = id])

\* WGplayerAchievementsMaxSeries._transform_WGplayerAchievementsMain at clock t
_transform_WGplayerAchievementsMain(in_obj, t) ==
    Caught(
        IF in_obj.max_series.kind = "None" THEN Raised("ValueError: no max_series")
        ELSE IF in_obj.account_id = NoneVal THEN Raised("ValueError: no account_id")
        ELSE LET added == MaxSeries_setattr(in_obj.max_series, "added",
                             IF in_obj.updated = NoneVal THEN t ELSE in_obj.updated.v)
             IN  IF added.st = "raised" THEN added
                 ELSE MaxSeries_setattr(added.value, "account_id", in_obj.account_id.v))

\* WGplayerAchievementsMaxSeries.transform
WGplayerAchievementsMaxSeries_transform(in_obj, t) ==
    Caught(IF in_obj.kind = "WGplayerAchievementsMain"
           THEN _transform_WGplayerAchievementsMain(in_obj, t)
           ELSE Returned(NoneObj))

\* WoTBlitzReplayData._transform_WoTBlitzReplayJSON: in_obj.data
_transform_WoTBlitzReplayJSON(in_obj) ==
    Caught(Returned([in_obj EXCEPT !.kind = "WoTBlitzReplayData"]))

\* WoTBlitzReplayData.transform
WoTBlitzReplayData_transform(in_obj) ==
    Caught(IF in_obj.kind = "WoTBlitzReplayJSON" THEN _transform_WoTBlitzReplayJSON(in_obj)
           ELSE Returned(NoneObj))

\* a WGplayerAchievementsMaxSeries as its construction leaves it
MaxSeries(account_id, region, added) ==
    MaxSeries_setattr([kind |-> "WGplayerAchievementsMaxSeries", id |-> Unset,
                       account_id |-> account_id, region |-> region, added |-> added],
                      "added", added).value

WGTanks ==
    [ kind : { "WGTank" }, id : { FromInt(1), FromInt(2) },
      type : { NoEnum } \cup { [enum |-> "EnumVehicleTypeStr", name |-> n] :
                                 n \in VehicleTypeNames },
      tier : { None, "I", "X" }, is_premium : BOOLEAN ]

AchievementsMains ==
    [ kind : { "WGplayerAchievementsMain" },
      max_series : { NoneObj, MaxSeries(Mk(0, 0), None, Epoch),
                     MaxSeries(E8(5), "ru", Epoch) },
      account_id : { NoneVal, IntVal(E8(5)), IntVal(FromInt(-1)) },
      updated : { NoneVal, IntVal(AddSmall(Epoch, 1)) } ]

\* the objects handed to the transformations: the three supported sources
\* and records of other kinds
TransformSources ==
    WGTanks \cup AchievementsMains
        \cup { r \in Replays : r.details = << >> /\ r.battle_result = "win"
                                                /\ r.winner_team = "one" }
        \cup { Release(<< "1", ".", "2" >>).obj,
               [kind |-> "Tank", tank_id |-> FromInt(1), tier |-> None,
                type |-> NoEnum, is_premium |-> FALSE] }

TransformInit ==
    /\ subject \in TransformSources
    /\ player = NoneVal
    /\ ret = [Tank |-> NotCalled, WGplayerAchievementsMaxSeries |-> NotCalled,
              WoTBlitzReplayData |-> NotCalled]
    /\ heap = << >>
    /\ now \in NowValues
    /\ op = "init" /\ payload = NoRecord /\ rec = NoRecord /\ err = "init"
    /\ prev = NoRecord
    /\ RegionIdle /\ KeyIdle

TransformToTank ==
    /\ subject.kind # "none" /\ ret.Tank = NotCalled
    /\ ret' = [ret EXCEPT !.Tank = Tank_transform(subject)]
    /\ UNCHANGED << subject, player, heap, regionVars, keyVars, recordVars >>

TransformToMaxSeries ==
    /\ subject.kind # "none" /\ ret.WGplayerAchievementsMaxSeries = NotCalled
    /\ ret' = [ret EXCEPT !.WGplayerAchievementsMaxSeries =
                                WGplayerAchievementsMaxSeries_transform(subject, now)]
    /\ UNCHANGED << subject, player, heap, regionVars, keyVars, recordVars >>

TransformToReplayData ==
    /\ subject.kind # "none" /\ ret.WoTBlitzReplayData = NotCalled
    /\ ret' = [ret EXCEPT !.WoTBlitzReplayData = WoTBlitzReplayData_transform(subject)]
    /\ UNCHANGED << subject, player, heap, regionVars, keyVars, recordVars >>

TransformNext == TransformToTank \/ TransformToMaxSeries \/ TransformToReplayData

SpecTransform == TransformInit /\ [][TransformNext]_vars

\* the one source kind each target transforms
Supported ==
    [Tank |-> "WGTank", WGplayerAchievementsMaxSeries |-> "WGplayerAchievementsMain",
     WoTBlitzReplayData |-> "WoTBlitzReplayJSON"]

\* C20: a transformation requested from a source kind the target does not
\* support (Tank.transform, WGplayerAchievementsMaxSeries.transform,
\* WoTBlitzReplayData.transform with any other record kind) returns None and
\* never raises; the achievement transformation also returns None, without
\* raising, for a source with no max_series or no account_id.
C20_NotApplicableIsNone ==
    /\ \A target \in DOMAIN ret :
          /\ ret[target].st # "raised"
          /\ (ret[target].st = "returned" /\ subject.kind # Supported[target])
                => ret[target].value = NoneObj
    /\ (/\ ret.WGplayerAchievementsMaxSeries.st = "returned"
        /\ subject.kind = "WGplayerAchievementsMain"
        /\ subject.max_series = NoneObj \/ subject.account_id = NoneVal)
          => ret.WGplayerAchievementsMaxSeries.value = NoneObj

\* an achievement source with a max_series and no account_id has been handed
\* to its own transformation and to Tank.transform, and both returned None
C20_Witness ==
    /\ subject.kind = "WGplayerAchievementsMain"
    /\ subject.max_series # NoneObj /\ subject.account_id = NoneVal
    /\ ret.WGplayerAchievementsMaxSeries = Returned(NoneObj)
    /\ ret.Tank = Returned(NoneObj)

-----------------------------------------------------------------------------
(* Registered transformations applied to objects held by reference:        *)
(* Account.transform_WGAccountInfo and WGPlayerAchievementsMaxSeries       *)
(* .transform_WGPlayerAchievementsMain.  heap[ref] is the object at ref; a *)
(* field whose type is a model holds a reference, NoRef for None.          *)

NoRef == 0

\* r with the field name set to value
WithField(r, name, value) ==
    [ f \in DOMAIN r \cup { name } |-> IF f = name THEN value ELSE r[f] ]

\* what a call leaves: the heap and the reference it returns (NoRef for None)
Outcome(h, result) == [heap |-> h, result |-> result]

\* Account.transform_WGAccountInfo(h[ref]): Account(id=..., region=..., ...)
\* is a new object; nickname ("str | None") is stored as it is given
transform_WGAccountInfo(h, ref) ==
    LET in_obj == h[ref]
        res    == Account([id |-> IntVal(in_obj.account_id), _id |-> AbsentVal,
                           region |-> in_obj.region, r |-> Absent,
                           l |-> in_obj.last_battle_time,
                           c |-> in_obj.created_at, u |-> in_obj.updated_at])
    IN  IF res.ok
        THEN Outcome(Append(h, WithField(res.obj, "nickname", in_obj.nickname)), Len(h) + 1)
        ELSE Outcome(h, NoRef)

\* WGPlayerAchievementsMaxSeries.transform_WGPlayerAchievementsMain(h[ref]) at
\* clock t: ms is the object in_obj.max_series refers to, the two assignments
\* are made to it (validate_assignment, set_region_id) and ms is returned; an
\* exception of the second assignment leaves the first one made
transform_WGPlayerAchievementsMain(h, ref, t) ==
    LET in_obj == h[ref]
        ms     == in_obj.max_series
    IN  IF ms = NoRef \/ in_obj.account_id = NoneVal THEN Outcome(h, NoRef)
        ELSE LET added == MaxSeries_setattr(h[ms], "added",
                             IF in_obj.updated = NoneVal THEN t ELSE in_obj.updated.v)
             IN  IF added.st = "raised" THEN Outcome(h, NoRef)
                 ELSE LET h1  == [h EXCEPT ![ms] = added.value]
                          acc == MaxSeries_setattr(h1[ms], "account_id", in_obj.account_id.v)
                      IN  IF acc.st = "raised" THEN Outcome(h1, NoRef)
                          ELSE Outcome([h1 EXCEPT ![ms] = acc.value], ms)

\* the object at ref together with the objects its fields refer to
Deep(h, ref) ==
    IF h[ref].kind = "WGPlayerAchievementsMain"
    THEN [h[ref] EXCEPT !.max_series = IF @ = NoRef THEN NoneObj ELSE h[@]]
    ELSE h[ref]

\* the references that lead to mutable state of the object at ref
Reach(h, ref) ==
    { ref } \cup IF h[ref].kind = "WGPlayerAchievementsMain" /\ h[ref].max_series # NoRef
                 THEN { h[ref].max_series } ELSE { }

\* a WGAccountInfo as its construction leaves it (set_region has run)
AccountInfos ==
    { [kind |-> "WGAccountInfo", account_id |-> a,
       region |-> WGAccountInfo_set_region(Ok(a), [ok |-> TRUE, v |-> g]),
       created_at |-> c, updated_at |-> u, nickname |-> n, last_battle_time |-> l] :
        a \in { FromInt(-1), FromInt(1), E8(5) }, g \in { None, "ru" },
        c \in { FromInt(0), FromInt(5) }, u \in { FromInt(0), FromInt(7) },
        n \in { None, "alice" }, l \in { FromInt(-1), FromInt(0), FromInt(9) } }

\* a WGPlayerAchievementsMaxSeries as its construction leaves it
MaxSeriesObjects ==
    { MaxSeries(a, g, Epoch) : a \in { Mk(0, 0), E8(5) }, g \in { None, "ru" } }

\* the heaps with the source at reference 1: a WGAccountInfo, or a
\* WGPlayerAchievementsMain with its max_series (if any) at reference 2
ShareHeaps ==
    { << i >> : i \in AccountInfos }
      \cup { << [kind |-> "WGPlayerAchievementsMain", max_series |-> NoRef,
                 account_id |-> a, updated |-> u] >> :
               a \in { NoneVal, IntVal(E8(5)) }, u \in { NoneVal } }
      \cup { << [kind |-> "WGPlayerAchievementsMain", max_series |-> 2,
                 account_id |-> a, updated |-> u], ms >> :
               a \in { NoneVal, IntVal(E8(5)), IntVal(Pow16(AccountWidth)) },
               u \in { NoneVal, IntVal(Epoch), IntVal(AddSmall(Epoch, 1)) },
               ms \in MaxSeriesObjects }

ShareInit ==
    /\ heap \in ShareHeaps
    /\ subject = [kind |-> "ref", ref |-> 1]
    /\ player = NoneVal
    /\ ret = [transform |-> NotCalled]
    /\ now \in NowValues
    /\ op = "init" /\ payload = NoRecord /\ rec = NoRecord /\ err = "init"
    /\ prev = NoRecord
    /\ RegionIdle /\ KeyIdle

Transformed(out) ==
    /\ heap' = out.heap
    /\ ret' = [ret EXCEPT !.transform = Returned(out.result)]
    /\ op' = "transform"
    /\ err' = "ok"
    /\ prev' = Deep(heap, subject.ref)
    /\ UNCHANGED << subject, player, now, payload, rec, regionVars, keyVars >>

\* Account.transform(in_obj) for a WGAccountInfo
TransformAccountInfo ==
    /\ op = "init" /\ subject.kind = "ref"
    /\ heap[subject.ref].kind = "WGAccountInfo"
    /\ Transformed(transform_WGAccountInfo(heap, subject.ref))

\* WGPlayerAchievementsMaxSeries.transform(in_obj) for a WGPlayerAchievementsMain
TransformAchievementsMain ==
    /\ op = "init" /\ subject.kind = "ref"
    /\ heap[subject.ref].kind = "WGPlayerAchievementsMain"
    /\ Transformed(transform_WGPlayerAchievementsMain(heap, subject.ref, now))

\* the values later assigned to a field of the result
AssignedValues == { FromInt(3), AddSmall(Epoch, 2) }

\* result.<field> = value on the record a transformation returned; a refused
\* assignment leaves the object as it was
AssignToResult ==
    /\ op = "transform" /\ ret.transform.value # NoRef
    /\ LET res == ret.transform.value
       IN  \E value \in AssignedValues :
              \/ /\ heap[res].kind = "Account"
                 /\ LET a == Account_setattr_id(heap[res], IntVal(value))
                    IN  /\ heap' = IF a.ok THEN [heap EXCEPT ![res] = a.obj] ELSE heap
                        /\ err' = IF a.ok THEN "ok" ELSE "ValidationError"
              \/ /\ heap[res].kind = "WGplayerAchievementsMaxSeries"
                 /\ \E name \in { "account_id", "added" } :
                       LET m == MaxSeries_setattr(heap[res], name, value)
                       IN  /\ heap' = IF m.st = "returned"
                                      THEN [heap EXCEPT ![res] = m.value] ELSE heap
                           /\ err' = IF m.st = "returned" THEN "ok" ELSE "InvalidId"
    /\ op' = "assign"
    /\ UNCHANGED << subject, player, ret, now, payload, rec, prev, regionVars, keyVars >>

ShareNext == TransformAccountInfo \/ TransformAchievementsMain \/ AssignToResult

SpecShare == ShareInit /\ [][ShareNext]_vars

\* C21: applying a registered transformation (Account.transform_WGAccountInfo,
\* WGPlayerAchievementsMaxSeries.transform_WGPlayerAchievementsMain) leaves
\* every field of the source record unchanged and returns a record that
\* shares no mutable state with the source: a later assignment to the result
\* is not visible through the source.
C21_TransformLeavesSource ==
    op \in { "transform", "assign" }
        => /\ Deep(heap, subject.ref) = prev
           /\ ret.transform.value \notin Reach(heap, subject.ref)

-----------------------------------------------------------------------------
(* Tiers: WoTBlitzReplaySummary.vehicle_tier, EnumVehicleTier.read_tier and *)
(* the tier of a Tank.  A tier is a small number and is a plain integer     *)
(* here; a tier input is an int, a str (a sequence of characters) or None.  *)

\* the tier tokens drawn have 0 .. MaxTokenLen characters
MaxTokenLen == 3

TierInt(n) == [t |-> "int", n |-> n, s |-> << >>]
TierStr(s) == [t |-> "str", n |-> 0, s |-> s]
TierNone   == [t |-> "None", n |-> 0, s |-> << >>]

\* the names of the members of EnumVehicleTier; the member at position n has
\* the value n
EnumVehicleTierNames ==
    << << "I" >>, << "I", "I" >>, << "I", "I", "I" >>, << "I", "V" >>, << "V" >>,
       << "V", "I" >>, << "V", "I", "I" >>, << "V", "I", "I", "I" >>, << "I", "X" >>,
       << "X" >> >>

\* EnumVehicleTier(n): the member of value n, or a ValueError
EnumVehicleTier(n) ==
    IF n \in 1 .. Len(EnumVehicleTierNames) THEN Returned(n) ELSE Raised("ValueError")

\* EnumVehicleTier[name]: the member of that name, or a KeyError
EnumVehicleTier_getitem(name) ==
    IF \E n \in 1 .. Len(EnumVehicleTierNames) : EnumVehicleTierNames[n] = name
    THEN Returned(CHOOSE n \in 1 .. Len(EnumVehicleTierNames) : EnumVehicleTierNames[n] = name)
    ELSE Raised("KeyError")

\* s.isdigit(): not empty and decimal digits only
isdigit(s) == Len(s) > 0 /\ \A i \in 1 .. Len(s) : IsDigit(s[i])

\* s.upper(), for the letters of the tokens drawn
upper(s) ==
    [ i \in 1 .. Len(s) |-> CASE s[i] = "i" -> "I" [] s[i] = "v" -> "V"
                              [] s[i] = "x" -> "X" [] OTHER -> s[i] ]

\* EnumVehicleTier.read_tier: every exception leaves as a ValueError
read_tier(tier) ==
    LET r == IF isdigit(tier) THEN EnumVehicleTier(int(tier).v)
             ELSE EnumVehicleTier_getitem(tier)
    IN  IF r.st = "raised" THEN Raised("ValueError") ELSE r

\* WoTBlitzReplaySummary.check_tier (validator)
check_tier(v) ==
    IF v # TierNone /\ (v.n > 10 \/ v.n < 0) THEN Raised("ValueError") ELSE Returned(v)

\* the field vehicle_tier ("int | None", required): a str goes through int(),
\* then check_tier runs, on None as well
vehicle_tier(x) ==
    CASE x.t = "None" -> check_tier(TierNone)
      [] x.t = "int"  -> check_tier(x)
      [] x.t = "str" /\ int(x.s).ok  -> check_tier(TierInt(int(x.s).v))
      [] OTHER        -> Raised("ValidationError")

\* Tank.prevalidate_tier (validator, pre=True): the KeyError of an unknown name
\* is no validation error and leaves the constructor as it is
prevalidate_tier(v) ==
    IF v.t = "str"
    THEN LET m == EnumVehicleTier_getitem(upper(v.s))
         IN  IF m.st = "raised" THEN m ELSE Returned(TierInt(m.value))
    ELSE Returned(v)

\* Tank.validate_tier (validator): an int, and a member is one, is made a member
validate_tier(v) == IF v.t = "int" THEN EnumVehicleTier(v.n) ELSE Returned(v)

\* the field tier of Tank ("EnumVehicleTier | None"): prevalidate_tier, the
\* conversion to the enumeration, validate_tier
Tank_tier(x) ==
    LET pre == prevalidate_tier(x)
    IN  IF pre.st = "raised" THEN pre
        ELSE IF pre.value = TierNone THEN Returned(TierNone)
        ELSE IF EnumVehicleTier(pre.value.n).st = "raised" THEN Raised("ValidationError")
        ELSE LET post == validate_tier(pre.value)
             IN  IF post.st = "raised" THEN post ELSE Returned(TierInt(post.value))

TierChars == { "0", "1", "5", "9", "I", "V", "X", "i", "-" }

\* every text of at most MaxTokenLen characters, and the longest member name
TierTokens ==
    UNION { [ 1 .. n -> TierChars ] : n \in 0 .. MaxTokenLen }
        \cup { EnumVehicleTierNames[8] }

TierInputs ==
    { TierInt(n) : n \in (0 - 1) .. 12 } \cup { TierStr(s) : s \in TierTokens }
        \cup { TierNone }

TierInit ==
    /\ now = Mk(0, 0)
    /\ op = "init" /\ payload = NoRecord /\ rec = NoRecord /\ err = "init"
    /\ prev = NoRecord
    /\ RegionIdle /\ KeyIdle /\ QueryIdle

\* the outcome of an operation on tiers: its result is kept in rec
TierOutcome(kind, x, r) ==
    /\ op' = kind
    /\ payload' = [kind |-> kind, tier |-> x]
    /\ rec' = IF r.st = "returned" THEN [kind |-> kind, tier |-> r.value] ELSE NoRecord
    /\ err' = IF r.st = "returned" THEN "ok" ELSE r.value
    /\ UNCHANGED << now, prev, regionVars, keyVars, queryVars >>

\* WoTBlitzReplaySummary(vehicle_tier=x, ...), the other fields being valid
NewReplaySummary ==
    /\ op = "init"
    /\ \E x \in TierInputs : TierOutcome("WoTBlitzReplaySummary", x, vehicle_tier(x))

\* EnumVehicleTier.read_tier(token)
ReadTier ==
    /\ op = "init"
    /\ \E tok \in TierTokens :
          LET r == read_tier(tok)
          IN  TierOutcome("read_tier", TierStr(tok),
                          IF r.st = "returned" THEN Returned(TierInt(r.value)) ELSE r)

\* Tank(tank_id=..., tier=x)
NewTank ==
    /\ op = "init"
    /\ \E x \in TierInputs : TierOutcome("Tank", x, Tank_tier(x))

TierNext == NewReplaySummary \/ ReadTier \/ NewTank

SpecTier == TierInit /\ [][TierNext]_vars

\* the number a tier input stands for, if it is an int or the text of one
IsNumber(x) == x.t = "int" \/ (x.t = "str" /\ IsIntegerText(x.s))
NumberOf(x) == IF x.t = "int" THEN x.n ELSE int(x.s).v

\* a roman numeral I .. X, in capitals or not
IsRoman(x) == x.t = "str" /\ EnumVehicleTier_getitem(upper(x.s)).st = "returned"

\* C22: a WoTBlitzReplaySummary whose vehicle_tier is present and outside
\* 1..10 fails validation, and EnumVehicleTier.read_tier and the tier
\* normalization of Tank reject every tier token that is neither a number
\* 1..10 nor a roman numeral I..X; tier values inside 1..10 are accepted.
C22_TierWithinOneToTen ==
    /\ (op = "WoTBlitzReplaySummary" /\ IsNumber(payload.tier))
          => (err = "ok" <=> NumberOf(payload.tier) \in 1 .. 10)
    /\ (op \in { "read_tier", "Tank" } /\ payload.tier.t = "str")
          => /\ ~((IsNumber(payload.tier) /\ NumberOf(payload.tier) \in 1 .. 10)
                     \/ IsRoman(payload.tier))
                   => err # "ok"
             /\ (op = "read_tier" /\ isdigit(payload.tier.s)
                     /\ NumberOf(payload.tier) \in 1 .. 10)
                   => (err = "ok" /\ rec.tier = TierInt(NumberOf(payload.tier)))
    /\ (op = "Tank" /\ payload.tier.t = "int" /\ payload.tier.n \in 1 .. 10)
          => (err = "ok" /\ rec.tier = payload.tier)

-----------------------------------------------------------------------------
(* Claims on mk_index as a mapping of triples *)

\* C23: WGPlayerAchievementsMaxSeries.mk_index is injective on in-budget
\* inputs: two inputs (account_id, region, added) that differ in any
\* component, including two different region values or a region versus no
\* region, yield different keys.
C23_MkIndexInjective ==
    (kindex # Unset /\ InBudget(kacc, AccountWidth) /\ InBudget(klbt, LbtWidth))
        => \A a \in KeyValues(AccountWidth), g \in Region \cup { None },
              t \in KeyValues(LbtWidth) :
                (/\ InBudget(a, AccountWidth) /\ InBudget(t, LbtWidth)
                 /\ << a, g, t >> # << kacc, kregion, klbt >>)
                    => mk_index(a, g, t) # kindex

-----------------------------------------------------------------------------
(* Account as text: txt_row and from_txt.  The ids drawn are below 2^31, so *)
(* their decimal text is written and read with plain integers.              *)

\* the Python int n as a plain integer
ToInt(n) == n.h * Base + n.l

\* Account.txt_row (format "id"): str(self.id)
txt_row(self) == str(ToInt(self.id))

\* the text of each Region member
RegionText == [ru |-> << "r", "u" >>, eu |-> << "e", "u" >>, com |-> << "c", "o", "m" >>,
               asia |-> << "a", "s", "i", "a" >>, china |-> << "c", "h", "i", "n", "a" >>]

\* Account.from_txt(text) without keyword arguments: Account(id=text).  The
\* text is read by read_account_id, which splits it at ":" and takes int() of
\* the first part; every exception is raised again as ValueError
from_txt(text) ==
    LET parts == split(text, ":")
        tok   == IF Len(parts) >= 2 /\ \E g \in Region : RegionText[g] = parts[2]
                 THEN CHOOSE g \in Region : RegionText[g] = parts[2]
                 ELSE "xx"
    IN  IF ~int(parts[1]).ok THEN Failed
        ELSE Account([id |-> StrVal(FromInt(int(parts[1]).v), Len(parts),
                                    IF Len(parts) >= 2 THEN tok ELSE ""),
                      _id |-> AbsentVal, region |-> Absent, r |-> Absent,
                      l |-> Mk(0, 0), c |-> Mk(0, 0), u |-> Mk(0, 0)])

\* Account.from_txt(account.txt_row()) takes the place of the account
RoundTrip ==
    /\ rec.kind = "Account" /\ op # "from_txt"
    /\ LET res == from_txt(txt_row(rec))
       IN  /\ op' = "from_txt"
           /\ rec' = res.obj
           /\ err' = IF res.ok THEN "ok" ELSE "ValueError"
    /\ prev' = rec
    /\ UNCHANGED << now, payload, regionVars, keyVars, queryVars >>

TextNext == NewAccount \/ AssignAccountId \/ RoundTrip

SpecText == RecordInit /\ [][TextNext]_vars

\* C24: text export and import of an Account round-trips: for every valid
\* Account a, Account.from_txt(a.txt_row()) has the same id and the same
\* region as a, also when a's region was supplied explicitly.
C24_TextRoundTrip ==
    op = "from_txt" => (err = "ok" /\ rec.id = prev.id /\ rec.region = prev.region)

-----------------------------------------------------------------------------
(* WGPlayerAchievementsMaxSeries: construction and assignments.  The class  *)
(* is WGplayerAchievementsMaxSeries in models.py, with the same code.       *)

\* WGPlayerAchievementsMaxSeries(**values): the fields are validated, then
\* set_region_id (root_validator) writes region and id
WGPlayerAchievementsMaxSeries(values) ==
    IF ~RegionField(values.region, TRUE).ok THEN Failed
    ELSE LET r == MaxSeries_setattr([kind |-> "WGplayerAchievementsMaxSeries",
                                     id |-> values.id, account_id |-> values.account_id,
                                     region |-> values.region, added |-> values.added],
                                    "added", values.added)
         IN  IF r.st = "raised" THEN Failed ELSE Built(r.value)

\* the values given to each field, at construction and by assignment
MaxSeriesValues ==
    [ id         |-> { Unset, GivenId },
      account_id |-> { FromInt(-1), Mk(0, 0), FromInt(1), E8(5), Pow16(AccountWidth) },
      region     |-> { None, "ru", "eu", "xx" },
      added      |-> { Epoch, AddSmall(Epoch, 1), Pow16(LbtWidth) } ]

MaxSeriesPayloads ==
    [ id : MaxSeriesValues.id, account_id : MaxSeriesValues.account_id,
      region : MaxSeriesValues.region, added : MaxSeriesValues.added ]

NewMaxSeries ==
    /\ op = "init"
    /\ \E p \in MaxSeriesPayloads :
          Construct("WGPlayerAchievementsMaxSeries", p, WGPlayerAchievementsMaxSeries(p))

\* the record after a call that ends with outcome r: a raised exception
\* leaves it as it was
Assigned(name, r) ==
    /\ op' = name
    /\ rec' = IF r.st = "returned" THEN r.value ELSE rec
    /\ err' = IF r.st = "returned" THEN "ok" ELSE r.value
    /\ prev' = rec
    /\ UNCHANGED << now, payload, regionVars, keyVars, queryVars >>

\* ms.<name> = value for account_id, region, added or id
AssignMaxSeries ==
    /\ rec.kind = "WGplayerAchievementsMaxSeries"
    /\ \E name \in DOMAIN MaxSeriesValues : \E value \in MaxSeriesValues[name] :
          Assigned(name, MaxSeries_setattr(rec, name, value))

\* WGApiWoTBlitzPlayerAchievements.get_max_series, for one entry of data:
\* ms.account_id = int(key) and, if ms.region is None, ms.region = from_id(...);
\* an exception ends the entry with what was assigned before it
GetMaxSeries ==
    /\ rec.kind = "WGplayerAchievementsMaxSeries"
    /\ \E account_id \in MaxSeriesValues.account_id :
          LET a == MaxSeries_setattr(rec, "account_id", account_id)
          IN  Assigned("get_max_series",
                       IF a.st = "returned" /\ a.value.region = None
                       THEN LET g == MaxSeries_setattr(a.value, "region", from_id(account_id))
                            IN  IF g.st = "returned" THEN g ELSE a
                       ELSE a)

\* WGApiWoTBlitzPlayerAchievements.set_regions, for one entry of data:
\* pam.max_series.region = region
SetRegions ==
    /\ rec.kind = "WGplayerAchievementsMaxSeries"
    /\ \E region \in Region : Assigned("set_regions", MaxSeries_setattr(rec, "region", region))

MaxSeriesNext == NewMaxSeries \/ AssignMaxSeries \/ GetMaxSeries \/ SetRegions

SpecMaxSeries == RecordInit /\ [][MaxSeriesNext]_vars

\* C25: in every state of a WGPlayerAchievementsMaxSeries reachable by
\* construction followed by any sequence of successful assignments to
\* account_id, region, added or id, the stored id equals
\* mk_index(account_id, region, added) of the current field values.
C25_IndexFollowsFields ==
    rec.kind = "WGplayerAchievementsMaxSeries"
        => /\ rec.id.st = "ObjectId"
           /\ rec.id = mk_index(rec.account_id, rec.region, rec.added)

\* a record built with an id of its own and region ru was assigned region eu,
\* and its id changed with it
C25_Witness ==
    /\ rec.kind = "WGplayerAchievementsMaxSeries" /\ payload.values.id = GivenId
    /\ op = "region" /\ err = "ok"
    /\ prev.region = "ru" /\ rec.region = "eu" /\ rec.id # prev.id

-----------------------------------------------------------------------------
(* WGTankStat: assignments to the fields its id is made of *)

\* stat.<name> = value at reference clock t (validate_assignment): set_id sees
\* the fields of the object, its id among them, with the new value; the field
\* is validated (last_battle_time through validate_lbt); set_region runs last
WGTankStat_setattr(obj, name, value, t) ==
    LET pre == set_id([FieldValues(obj) EXCEPT ![name] = value], t)
        v   == IF name = "last_battle_time" THEN validate_lbt(value, t) ELSE value
        nv  == [obj EXCEPT ![name] = v]
    IN  IF pre.raised THEN Failed
        ELSE Built([nv EXCEPT !.id = pre.values.id,
                              !.region = WGTankStat_set_region(nv.account_id, nv.region)])

\* the values assigned to each field
TankStatValues(t) ==
    [ account_id       |-> { FromInt(1), E8(5) },
      tank_id          |-> { FromInt(1), FromInt(2) },
      last_battle_time |-> { Mk(0, 0), AddSmall(t, LbtTolerance + 1) } ]

\* stat.<name> = value for account_id, tank_id or last_battle_time
AssignTankStat ==
    /\ rec.kind = "WGTankStat"
    /\ \E name \in DOMAIN TankStatValues(now) : \E value \in TankStatValues(now)[name] :
          LET res == WGTankStat_setattr(rec, name, value, now)
          IN  /\ op' = name
              /\ rec' = IF res.ok THEN res.obj ELSE rec
              /\ err' = IF res.ok THEN "ok" ELSE "ValidationError"
    /\ prev' = rec
    /\ UNCHANGED << now, payload, regionVars, keyVars, queryVars >>

TankStatNext == NewWGTankStat \/ AssignTankStat

SpecTankStat == RecordInit /\ [][TankStatNext]_vars

\* C26: in every state of a WGTankStat (constructed without an explicit id)
\* reachable by any sequence of successful assignments to account_id, tank_id
\* or last_battle_time, the stored id equals
\* mk_id(account_id, last_battle_time, tank_id) of the current field values.
C26_IdFollowsFields ==
    (rec.kind = "WGTankStat" /\ payload.values.id = Unset)
        => rec.id = mk_id(rec.account_id, rec.last_battle_time, rec.tank_id)

-----------------------------------------------------------------------------
(* WGApiTankopedia: data, meta and the calls add and pop.  A dict is a      *)
(* function of its keys; the keys of data are texts, those of meta names.   *)

\* the tank ids drawn are 1 .. MaxTankId
MaxTankId == 3

\* d[k] = v
setitem(d, k, v) == [ j \in DOMAIN d \cup { k } |-> IF j = k THEN v ELSE d[j] ]

\* d.pop(k): the value, and d without the key; a KeyError if k is not in d
dict_pop(d, k) ==
    IF k \in DOMAIN d
    THEN Returned([value |-> d[k], dict |-> [ j \in DOMAIN d \ { k } |-> d[j] ]])
    ELSE Raised("KeyError")

\* meta is None, or a dict
NoMeta     == [none |-> TRUE, dict |-> << >>]
Meta(dict) == [none |-> FALSE, dict |-> dict]

\* update_count writing the count only into a meta it has just made
update_count_once(self) ==
    IF self.meta.none
    THEN [self EXCEPT !.meta = Meta(setitem(<< >>, "count", Cardinality(DOMAIN self.data)))]
    ELSE self

\* WGApiTankopedia.update_count
update_count(self) ==
    LET meta == IF self.meta.none THEN Meta(<< >>) ELSE self.meta
    IN  [self EXCEPT !.meta = Meta(setitem(meta.dict, "count", Cardinality(DOMAIN self.data)))]

\* WGApiTankopedia.add
Tankopedia_add(self, tank) ==
    update_count([self EXCEPT !.data = setitem(@, str(tank.tank_id), tank)])

\* WGApiTankopedia.pop: the KeyError of data.pop leaves before update_count
Tankopedia_pop(self, tank_id) ==
    LET popped == dict_pop(self.data, str(tank_id))
    IN  IF popped.st = "raised" THEN [self |-> self, result |-> popped]
        ELSE [self   |-> update_count([self EXCEPT !.data = popped.value.dict]),
              result |-> Returned(popped.value.value)]

Tanks == [ kind : { "WGTank" }, tank_id : 1 .. MaxTankId, name : { "a", "b" } ]

\* the payloads of WGApiTankopedia: data empty or with one tank, meta None or
\* a dict that may bring a count of its own
TankopediaPayloads ==
    [ data : { << >> } \cup { setitem(<< >>, str(t.tank_id), t) : t \in Tanks },
      meta : { NoMeta, Meta(<< >>), Meta([count |-> 0]), Meta([count |-> 7, page |-> 1]) } ]

TankopediaInit ==
    /\ now = Mk(0, 0)
    /\ op = "init" /\ payload = NoRecord /\ rec = NoRecord /\ err = "init"
    /\ prev = NoRecord
    /\ subject = [kind |-> "none"] /\ player = NoneVal /\ heap = << >>
    /\ ret = [pop |-> NotCalled]
    /\ RegionIdle /\ KeyIdle

\* WGApiTankopedia(data=..., meta=...)
NewTankopedia ==
    /\ op = "init"
    /\ \E p \in TankopediaPayloads :
          /\ op' = "WGApiTankopedia"
          /\ payload' = [kind |-> "WGApiTankopedia", values |-> p]
          /\ rec' = [kind |-> "WGApiTankopedia", data |-> p.data, meta |-> p.meta]
          /\ err' = "ok"
    /\ prev' = NoRecord
    /\ UNCHANGED << now, regionVars, keyVars, queryVars >>

\* tankopedia.add(tank)
AddTank ==
    /\ rec.kind = "WGApiTankopedia"
    /\ \E tank \in Tanks :
          /\ op' = "add"
          /\ payload' = [kind |-> "add", values |-> tank]
          /\ rec' = Tankopedia_add(rec, tank)
          /\ err' = "ok"
    /\ prev' = rec
    /\ UNCHANGED << now, regionVars, keyVars, queryVars >>

\* tankopedia.pop(tank_id)
PopTank ==
    /\ rec.kind = "WGApiTankopedia"
    /\ \E tank_id \in 1 .. MaxTankId :
          LET out == Tankopedia_pop(rec, tank_id)
          IN  /\ op' = "pop"
              /\ payload' = [kind |-> "pop", values |-> tank_id]
              /\ rec' = out.self
              /\ err' = IF out.result.st = "raised" THEN out.result.value ELSE "ok"
              /\ ret' = [ret EXCEPT !.pop = out.result]
    /\ prev' = rec
    /\ UNCHANGED << now, subject, player, heap, regionVars, keyVars >>

TankopediaNext == NewTankopedia \/ AddTank \/ PopTank

SpecTankopedia == TankopediaInit /\ [][TankopediaNext]_vars

\* meta['count'] is the number of entries of data
CountIsLen(r) ==
    /\ r.kind = "WGApiTankopedia" /\ ~r.meta.none
    /\ "count" \in DOMAIN r.meta.dict
    /\ r.meta.dict["count"] = Cardinality(DOMAIN r.data)

\* C27: for a WGApiTankopedia, after any sequence of add(tank) and
\* pop(tank_id) calls containing at least one successful call, meta['count']
\* equals the number of entries in data; add of a tank_id already present
\* replaces the entry without changing the count; pop of an absent tank_id
\* raises KeyError and leaves data and meta unchanged.
C27_CountFollowsData ==
    /\ []((op \in { "add", "pop" } /\ err = "ok") => CountIsLen(rec))
    /\ [][CountIsLen(rec) => CountIsLen(rec')]_vars
    /\ [](op = "add" =>
            LET tank == payload.values
                key  == str(tank.tank_id)
            IN  /\ rec.data[key] = tank
                /\ \A k \in DOMAIN prev.data \ { key } :
                      k \in DOMAIN rec.data /\ rec.data[k] = prev.data[k]
                /\ key \in DOMAIN prev.data
                      => /\ DOMAIN rec.data = DOMAIN prev.data
                         /\ CountIsLen(prev) => rec.meta = prev.meta)
    /\ [](op = "pop" =>
            /\ err = "KeyError" <=> str(payload.values) \notin DOMAIN prev.data
            /\ err = "KeyError" => (rec.data = prev.data /\ rec.meta = prev.meta))

\* a tankopedia of two tanks was given another tank under an id it holds, and
\* then an id it does not hold was asked for
C27_Witness ==
    /\ op = "pop" /\ err = "KeyError" /\ CountIsLen(rec)
    /\ Cardinality(DOMAIN rec.data) = 2
    /\ payload.values = 3
    /\ rec.data[str(1)].name = "b" /\ rec.meta.dict["count"] = 2

-----------------------------------------------------------------------------
(* Account.update: an Account (with its nickname) takes the values of a     *)
(* WGAccountInfo                                                            *)

\* account.<name> = value for a field other than id (validate_assignment):
\* read_account_id finds id and region set and returns at once, then the
\* field is validated (last_battle_time by check_epoch_ge_zero)
Account_setattr(obj, name, value) ==
    LET pre == read_account_id([id |-> IntVal(obj.id), _id |-> AbsentVal,
                                region |-> obj.region, r |-> Absent,
                                l |-> obj.last_battle_time,
                                c |-> obj.created_at, u |-> obj.updated_at])
        v   == IF name = "last_battle_time" THEN check_epoch_ge_zero(value) ELSE Ok(value)
    IN  IF pre.raised \/ ~v.ok THEN Failed ELSE Built([obj EXCEPT ![name] = v.v])

\* one "if wanted: self.<name> = value; updated = True" of update: once an
\* assignment has raised, the rest of the try block is not run
UpdateStep(st, name, wanted, value) ==
    IF st.raised \/ ~wanted THEN st
    ELSE LET a == Account_setattr(st.self, name, value)
         IN  IF a.ok THEN [self |-> a.obj, updated |-> TRUE, raised |-> FALSE]
             ELSE [st EXCEPT !.raised = TRUE]

\* Account.update assigning whether or not the value differs
Account_update_unconditional(self, update) ==
    LET s0 == [self |-> self, updated |-> FALSE, raised |-> FALSE]
        s1 == UpdateStep(s0, "last_battle_time",
                         GT(update.last_battle_time, Mk(0, 0)), update.last_battle_time)
        s2 == UpdateStep(s1, "created_at", GT(update.created_at, Mk(0, 0)), update.created_at)
        s3 == UpdateStep(s2, "updated_at", GT(update.updated_at, Mk(0, 0)), update.updated_at)
        s4 == UpdateStep(s3, "nickname", update.nickname # None, update.nickname)
    IN  [self |-> s4.self, result |-> s4.updated]

\* Account.update: the exception of an assignment is logged, and updated is
\* returned as it stands
Account_update(self, update) ==
    LET s0 == [self |-> self, updated |-> FALSE, raised |-> FALSE]
        s1 == UpdateStep(s0, "last_battle_time",
                         /\ GT(update.last_battle_time, Mk(0, 0))
                         /\ self.last_battle_time # update.last_battle_time,
                         update.last_battle_time)
        s2 == UpdateStep(s1, "created_at",
                         /\ GT(update.created_at, Mk(0, 0))
                         /\ update.created_at # self.created_at,
                         update.created_at)
        s3 == UpdateStep(s2, "updated_at",
                         /\ GT(update.updated_at, Mk(0, 0))
                         /\ update.updated_at # self.updated_at,
                         update.updated_at)
        s4 == UpdateStep(s3, "nickname",
                         /\ update.nickname # None
                         /\ self.nickname = None \/ self.nickname # update.nickname,
                         update.nickname)
    IN  [self |-> s4.self, result |-> s4.updated]

\* the payloads of the accounts that are updated: an int id under "id", the
\* region "ru" under "region" or no region
UpdatedPayloads ==
    { p \in AccountPayloads : /\ p.id.t = "int" /\ p._id = AbsentVal
                              /\ p.region \in { "ru", Absent } /\ p.r = Absent }

\* the WGAccountInfo objects an Account is updated from
UpdateInfos == { u \in AccountInfos : u.account_id = E8(5) }

UpdateInit ==
    /\ now = Mk(0, 0)
    /\ op = "init" /\ payload = NoRecord /\ rec = NoRecord /\ err = "init"
    /\ prev = NoRecord
    /\ subject = [kind |-> "none"] /\ player = NoneVal /\ heap = << >>
    /\ ret = [update |-> NotCalled]
    /\ RegionIdle /\ KeyIdle

\* Account(**payload, nickname=n)
NewAccountNicknamed ==
    /\ op = "init"
    /\ \E p \in UpdatedPayloads, n \in { None, "alice", "bob" } :
          LET res == Account(p)
          IN  Construct("Account", WithField(p, "n", n),
                        IF res.ok THEN Built(WithField(res.obj, "nickname", n)) ELSE Failed)

Updated(name, u) ==
    LET out == Account_update(rec, u)
    IN  /\ op' = name
        /\ payload' = [kind |-> "update", values |-> u]
        /\ rec' = out.self
        /\ err' = "ok"
        /\ ret' = [ret EXCEPT !.update = Returned(out.result)]
        /\ prev' = rec
        /\ UNCHANGED << now, subject, player, heap, regionVars, keyVars >>

\* account.update(u)
Update ==
    /\ rec.kind = "Account"
    /\ \E u \in UpdateInfos : Updated("update", u)

\* account.update(u) once more, with the u of the call before
UpdateAgain ==
    /\ rec.kind = "Account" /\ op = "update"
    /\ Updated("update again", payload.values)

UpdateNext == NewAccountNicknamed \/ Update \/ UpdateAgain

SpecUpdate == UpdateInit /\ [][UpdateNext]_vars

\* C28: Account.update(u) returns True exactly when the Account's state after
\* the call differs from its state before; it only ever changes
\* last_battle_time, created_at, updated_at and nickname (each only to u's
\* value, and only when u's timestamp is > 0 or u's nickname is not None),
\* never id or region; applying the same update a second time returns False
\* and changes nothing.
C28_UpdateFrame ==
    op \in { "update", "update again" } =>
        LET u == payload.values
        IN  /\ ret.update = Returned(rec # prev)
            /\ rec.kind = "Account" /\ rec.id = prev.id /\ rec.region = prev.region
            /\ \A f \in { "last_battle_time", "created_at", "updated_at" } :
                  rec[f] # prev[f] => (rec[f] = u[f] /\ GT(u[f], Mk(0, 0)))
            /\ rec.nickname # prev.nickname
                  => (rec.nickname = u.nickname /\ u.nickname # None)
            /\ op = "update again" => (ret.update = Returned(FALSE) /\ rec = prev)

\* an update that changed created_at and the nickname and left
\* last_battle_time, for which it brought -1, was applied once more
C28_Witness ==
    /\ op = "update again" /\ ret.update = Returned(FALSE)
    /\ payload.values.last_battle_time = FromInt(-1)
    /\ payload.values.created_at = FromInt(5) /\ rec.created_at = FromInt(5)
    /\ payload.values.nickname = "alice" /\ rec.nickname = "alice"
    /\ prev = rec

-----------------------------------------------------------------------------
(* The side of a viewpoint in get_allies and in get_battle_result *)

\* what get_battle_result returns to a viewpoint it takes for an ally and to
\* one it takes for an enemy
ResultOfAlly(self) ==
    IF self.battle_result = "win" THEN "win"
    ELSE IF self.winner_team = "draw" THEN "draw" ELSE "loss"

ResultOfEnemy(self) ==
    IF self.battle_result = "win" THEN "loss"
    ELSE IF self.winner_team = "draw" THEN "draw" ELSE "win"

\* C29: side classification is consistent across the replay queries: for
\* every replay and every viewpoint p, get_battle_result(p) treats p as an
\* ally exactly when get_allies(p) returns the recorded allies list and as an
\* enemy exactly when get_allies(p) returns the recorded enemies list,
\* including when p appears in both recorded lists.  (Stated where the two
\* recorded lists differ and the two sides get different results, so that
\* the side taken shows in what is returned.)
C29_SidesAgree ==
    ( /\ Called("get_allies") /\ Called("get_battle_result")
      /\ player # NoneVal /\ ret.get_allies.st = "returned"
      /\ subject.allies # subject.enemies
      /\ subject.battle_result # "incomplete"
      /\ ResultOfAlly(subject) # ResultOfEnemy(subject) )
        => /\ ret.get_battle_result = Returned(ResultOfAlly(subject))
                <=> ret.get_allies = Returned(subject.allies)
           /\ ret.get_battle_result = Returned(ResultOfEnemy(subject))
                <=> ret.get_allies = Returned(subject.enemies)

-----------------------------------------------------------------------------
(* Release.next() called again and again *)

\* next() is followed while MAJOR is below MaxMajor
MaxMajor == 3

\* the releases a sequence starts from: two or three components, with minors
\* below, at and above the ceiling and below zero
SequenceComponents ==
    { << "1" >>, << "9" >>, << "1", "0" >>, << "1", "1" >>, << "0", "1" >>,
      << "-", "1" >>, << "-", "2" >> }

SequenceStarts ==
    { join(".", parts) : parts \in UNION { [ 1 .. n -> SequenceComponents ] : n \in 2 .. 3 } }

\* Release(release=v), the first of a sequence
StartSequence ==
    /\ op = "init"
    /\ \E v \in SequenceStarts : Construct("Release", [release |-> v], Release(v))

\* release = release.next()
NextInSequence ==
    /\ rec.kind = "Release"
    /\ _release_number(rec.release).v[1] < MaxMajor
    /\ LET res == Release_next(rec)
       IN  /\ op' = "next"
           /\ rec' = res.obj
           /\ err' = IF res.ok THEN "ok" ELSE "IndexError"
    /\ prev' = rec
    /\ UNCHANGED << now, payload, regionVars, keyVars, queryVars >>

SequenceNext == StartSequence \/ NextInSequence

SpecSequence == ReleaseInit /\ [][SequenceNext]_vars

Major(r) == int(Components(r.release)[1]).v
Minor(r) == int(Components(r.release)[2]).v

\* C30: starting from any valid Release with at least two components, every
\* release reached by one or more next() calls has exactly two components
\* (any PATCH is dropped) with MINOR in 0..10, and each next() step strictly
\* increases the pair (MAJOR, MINOR) in lexicographic order, so no release is
\* ever repeated in the sequence.
C30_NextSequence ==
    op = "next" =>
        /\ err = "ok"
        /\ Len(Components(rec.release)) = 2
        /\ Minor(rec) \in 0 .. 10
        /\ \/ Major(prev) < Major(rec)
           \/ Major(prev) = Major(rec) /\ Minor(prev) < Minor(rec)

====
